---- MODULE Spec2Model ----
(***************************************************************************)
(* The date-resolution engine of the Gantt application (src/core_logic.py) *)
(* as a state machine: one call of calculate_task_dates over a task list,  *)
(* stepped one loop iteration at a time; and its functions without state   *)
(* (add_work_days, count_work_days, would_create_cycle,                    *)
(* get_dependency_chain, _find_dependency_cycle), each applied in one step *)
(* to arguments args, giving result.                                       *)
(*                                                                         *)
(* Representation                                                          *)
(*   datetime        its proleptic Gregorian ordinal (date.toordinal()),   *)
(*                   so Monday 0001-01-01 is 1 and + timedelta(days=1) is  *)
(*                   + 1; every datetime of the engine is at midnight.     *)
(*   str (a date)    the sequence of its characters.                       *)
(*   float duration  the integer number of 1/DurDen days (the durations    *)
(*                   of the program are multiples of a half or a quarter,  *)
(*                   on which float arithmetic is exact).                  *)
(*   a missing key   Absent (for 'start'/'end'), None for a None value.    *)
(***************************************************************************)
EXTENDS Integers, Sequences, FiniteSets, TLC

VARIABLES tasks_list, project_start_date, calculated_tasks, iteration, idx,
          made_progress, pc, error, had_dates, args, result

vars == <<tasks_list, project_start_date, calculated_tasks, iteration, idx,
          made_progress, pc, error, had_dates, args, result>>

\* The state of a call of calculate_task_dates.
call_vars == <<project_start_date, calculated_tasks, iteration, idx,
               made_progress, pc, error, had_dates>>

----------------------------------------------------------------------------
(* Python values *)

\* None where a task name is expected (depends_on, dict.get results).
None == "<None>"

\* None where a date string is expected (the two overrides).
NoneStr == <<"<None>">>

\* The key 'start' / 'end' is not in the dict.
Absent == 0

\* Truth value of an optional name: None and "" are falsy.
TruthyName(n) == n /= None /\ n /= ""

\* Truth value of an optional date string: None and "" are falsy.
TruthyStr(s) == s /= NoneStr /\ s /= <<>>

----------------------------------------------------------------------------
(* datetime: ordinals, weekdays, construction *)

\* datetime.weekday(): Monday = 0 ... Sunday = 6.
Weekday(d) == (d + 6) % 7

\* First weekday number that is not a work day (weekday() < 5 is Mon-Fri).
Saturday == 5

IsLeap(y) == y % 4 = 0 /\ (y % 100 /= 0 \/ y % 400 = 0)

DaysInMonth(y, m) ==
    IF m = 2 THEN (IF IsLeap(y) THEN 29 ELSE 28)
    ELSE IF m \in {4, 6, 9, 11} THEN 30 ELSE 31

RECURSIVE DaysBeforeMonth(_, _)
DaysBeforeMonth(y, m) ==
    IF m <= 1 THEN 0 ELSE DaysBeforeMonth(y, m - 1) + DaysInMonth(y, m - 1)

DaysBeforeYear(y) ==
    LET p == y - 1 IN p * 365 + (p \div 4) - (p \div 100) + (p \div 400)

\* datetime(y, m, d) as an ordinal.
DateOrd(y, m, d) == DaysBeforeYear(y) + DaysBeforeMonth(y, m) + d

----------------------------------------------------------------------------
(* datetime.strptime(s, "%d-%m-%Y") *)

Digits == {"0", "1", "2", "3", "4", "5", "6", "7", "8", "9"}

DigitVal(c) ==
    CASE c = "0" -> 0 [] c = "1" -> 1 [] c = "2" -> 2 [] c = "3" -> 3
      [] c = "4" -> 4 [] c = "5" -> 5 [] c = "6" -> 6 [] c = "7" -> 7
      [] c = "8" -> 8 [] c = "9" -> 9

RECURSIVE NumVal(_)
NumVal(f) ==
    IF f = <<>> THEN 0
    ELSE 10 * NumVal(SubSeq(f, 1, Len(f) - 1)) + DigitVal(f[Len(f)])

\* %d : 3[0-1] | [1-2]\d | 0[1-9] | [1-9] | " "[1-9]
IsDayField(f) ==
    \/ /\ Len(f) = 2
       /\ \/ f[1] = "3" /\ f[2] \in {"0", "1"}
          \/ f[1] \in {"1", "2"} /\ f[2] \in Digits
          \/ f[1] \in {"0", " "} /\ f[2] \in Digits \ {"0"}
    \/ Len(f) = 1 /\ f[1] \in Digits \ {"0"}

\* %m : 1[0-2] | 0[1-9] | [1-9]
IsMonthField(f) ==
    \/ /\ Len(f) = 2
       /\ \/ f[1] = "1" /\ f[2] \in {"0", "1", "2"}
          \/ f[1] = "0" /\ f[2] \in Digits \ {"0"}
    \/ Len(f) = 1 /\ f[1] \in Digits \ {"0"}

\* %Y : \d\d\d\d
IsYearField(f) == Len(f) = 4 /\ \A i \in 1..4 : f[i] \in Digits

\* The value of a day field (a leading space is skipped by int()).
DayVal(f) == IF f[1] = " " THEN DigitVal(f[2]) ELSE NumVal(f)

\* strptime raised ValueError.
ParseError == 0

\* The parsed datetime, or ParseError when strptime raises ValueError: the
\* text does not match the format, text remains after the year, or the
\* fields name no date (year 0, 31-02-...).
ParseDate(s) ==
    LET dashes == {i \in 1..Len(s) : s[i] = "-"} IN
    IF Cardinality(dashes) /= 2 THEN ParseError
    ELSE
      LET p1 == CHOOSE i \in dashes : \A j \in dashes : i <= j
          p2 == CHOOSE i \in dashes : \A j \in dashes : j <= i
          df == SubSeq(s, 1, p1 - 1)
          mf == SubSeq(s, p1 + 1, p2 - 1)
          yf == SubSeq(s, p2 + 1, Len(s))
      IN IF ~(IsDayField(df) /\ IsMonthField(mf) /\ IsYearField(yf))
         THEN ParseError
         ELSE LET d == DayVal(df)
                  m == NumVal(mf)
                  y == NumVal(yf)
              IN IF y < 1 \/ d > DaysInMonth(y, m) THEN ParseError
                 ELSE DateOrd(y, m, d)

----------------------------------------------------------------------------
(* Business-day arithmetic *)

\* A duration is q / DurDen days.
DurDen == 2

\* math.ceil(q / DurDen)
Ceil(q) == -((-q) \div DurDen)

\* The while loop of add_work_days.
RECURSIVE AddLoop(_, _)
AddLoop(end_date, days_to_add) ==
    IF days_to_add > 0
    THEN LET next == end_date + 1 IN
         AddLoop(next, IF Weekday(next) < Saturday
                       THEN days_to_add - 1 ELSE days_to_add)
    ELSE end_date

\* AddWorkDays counting Saturdays and Sundays as days of work.
AddWorkDaysOfTheWeek(start_date, duration_days) ==
    LET c == Ceil(duration_days) - 1 IN
    start_date + (IF c < 0 THEN 0 ELSE c)

\* AddWorkDays counting the days from the day after the start.
AddWorkDaysFromNextDay(start_date, duration_days) ==
    AddLoop(start_date, Ceil(duration_days))

AddWorkDays(start_date, duration_days) ==
    LET c == Ceil(duration_days) - 1
        days_to_add == IF duration_days > 0 /\ c < 0 THEN 0 ELSE c
    IN AddLoop(start_date, days_to_add)

\* The while loop of count_work_days (lines 65-69).
RECURSIVE CountLoop(_, _, _)
CountLoop(current_date, end_date, work_days) ==
    IF current_date <= end_date
    THEN CountLoop(current_date + 1, end_date,
                   IF Weekday(current_date) < Saturday
                   THEN work_days + 1 ELSE work_days)
    ELSE work_days

\* CountWorkDays that stops before the end date.
CountWorkDaysBeforeEnd(start_date, end_date) ==
    IF start_date > end_date THEN 0
    ELSE CountLoop(start_date, end_date - 1, 0)

\* CountWorkDays of every day, Saturdays and Sundays too.
CountWorkDaysOfAllDays(start_date, end_date) ==
    IF start_date > end_date THEN 0 ELSE end_date - start_date + 1

CountWorkDays(start_date, end_date) ==
    IF start_date > end_date THEN 0
    ELSE CountLoop(start_date, end_date, 0)

\* while d.weekday() >= 5: d += timedelta(days=1)
RECURSIVE SkipWeekend(_)
SkipWeekend(d) == IF Weekday(d) >= Saturday THEN SkipWeekend(d + 1) ELSE d

----------------------------------------------------------------------------
(* Task lists *)

Names(list) == {list[i].name : i \in 1..Len(list)}

\* tasks_by_name = {task["name"]: task for task in tasks_list}: the position
\* of the task a name maps to (the last one of that name).
TaskIndex(list, n) ==
    CHOOSE i \in 1..Len(list) :
        list[i].name = n /\ \A j \in (i + 1)..Len(list) : list[j].name /= n

TaskByName(list, n) == list[TaskIndex(list, n)]

\* ClearDates that leaves the stages as they are.
ClearDatesOfTasksOnly(list) ==
    [i \in 1..Len(list) |-> [list[i] EXCEPT !.start = Absent, !.end = Absent]]

\* Lines 101-110: some 'start' or 'end' key is there to delete.
HasDates(list) ==
    \E i \in 1..Len(list) :
        \/ list[i].start /= Absent \/ list[i].end /= Absent
        \/ \E k \in 1..Len(list[i].sub_tasks) :
               \/ list[i].sub_tasks[k].start /= Absent
               \/ list[i].sub_tasks[k].end /= Absent

\* Lines 100-110: every 'start' and 'end' key is deleted.
ClearDates(list) ==
    [i \in 1..Len(list) |->
        [list[i] EXCEPT
            !.start = Absent, !.end = Absent,
            !.sub_tasks = [k \in 1..Len(list[i].sub_tasks) |->
                [list[i].sub_tasks[k] EXCEPT !.start = Absent, !.end = Absent]]]]

----------------------------------------------------------------------------
(* _resolve_task_start_date *)

Resolved(d) == [kind |-> "date", date |-> d]
Deferred == [kind |-> "defer", date |-> Absent]
InvalidFormat == [kind |-> "invalid", date |-> Absent]
\* dependency["end"] on a task that has no 'end' key (KeyError)
NoEndKey == [kind |-> "key_error", date |-> Absent]

\* ResolveOverride without the weekend loop of lines 172-173.
ResolveOverrideNoWeekendSkip(override_str) ==
    IF ParseDate(override_str) = ParseError
    THEN [kind |-> "invalid", date |-> Absent]
    ELSE Resolved(ParseDate(override_str))

\* Priority 1, the start override: parsed, and moved off a weekend.
ResolveOverride(override_str) ==
    LET start_date == ParseDate(override_str) IN
    IF start_date = ParseError THEN InvalidFormat
    ELSE Resolved(SkipWeekend(start_date))

\* ResolveDependency without the weekend loop of lines 186-187.
ResolveDependencyNoWeekendSkip(list, calc, dependency_name) ==
    IF dependency_name \in calc
    THEN Resolved(list[CHOOSE i \in 1..Len(list) :
                           list[i].name = dependency_name].end + 1)
    ELSE [kind |-> "defer", date |-> Absent]

\* Priority 2, the dependency: the day after it ends, moved off a weekend.
\* A calculated name maps to a task without 'end' only when two tasks
\* share the name.
ResolveDependency(list, calc, dependency_name) ==
    IF dependency_name \in calc
    THEN LET dependency == TaskByName(list, dependency_name) IN
         IF dependency.end = Absent THEN NoEndKey
         ELSE Resolved(SkipWeekend(dependency.end + 1))
    ELSE Deferred

\* ResolveTaskStartDate looking at the dependency before the override.
ResolveTaskStartDateDependencyFirst(task, list, calc, ps) ==
    IF TruthyName(task.depends_on)
    THEN ResolveDependency(list, calc, task.depends_on)
    ELSE IF TruthyStr(task.start_date_override)
    THEN ResolveOverride(task.start_date_override)
    ELSE Resolved(ps)

\* ResolveTaskStartDate falling back to the project start, instead of
\* None, while the dependency is not calculated.
ResolveTaskStartDateNoDefer(task, list, calc, ps) ==
    IF TruthyStr(task.start_date_override)
    THEN ResolveOverride(task.start_date_override)
    ELSE IF TruthyName(task.depends_on) /\ task.depends_on \in calc
    THEN ResolveDependency(list, calc, task.depends_on)
    ELSE Resolved(ps)

\* ResolveTaskStartDate moving a weekend project start to the Monday.
ResolveTaskStartDateDefaultOffWeekend(task, list, calc, ps) ==
    IF TruthyStr(task.start_date_override)
    THEN ResolveOverride(task.start_date_override)
    ELSE IF TruthyName(task.depends_on)
    THEN ResolveDependency(list, calc, task.depends_on)
    ELSE Resolved(SkipWeekend(ps))

\* ResolveTaskStartDate passing over a start override that does not parse,
\* as the end override is passed over.
ResolveTaskStartDateInvalidIgnored(task, list, calc, ps) ==
    IF TruthyStr(task.start_date_override)
           /\ ParseDate(task.start_date_override) /= ParseError
    THEN ResolveOverride(task.start_date_override)
    ELSE IF TruthyName(task.depends_on)
    THEN ResolveDependency(list, calc, task.depends_on)
    ELSE Resolved(ps)

ResolveTaskStartDate(task, list, calc, ps) ==
    IF TruthyStr(task.start_date_override)
    THEN ResolveOverride(task.start_date_override)
    ELSE IF TruthyName(task.depends_on)
    THEN ResolveDependency(list, calc, task.depends_on)
    ELSE Resolved(ps)

----------------------------------------------------------------------------
(* _calculate_task_and_subtasks *)

\* EndDateOverride without the comparison with the start of line 212.
EndDateOverrideAnyDate(task, start_date_for_task) ==
    IF TruthyStr(task.end_date_override)
    THEN ParseDate(task.end_date_override)
    ELSE ParseError

\* Lines 207-215: the end override that counts, or ParseError for none.
EndDateOverride(task, start_date_for_task) ==
    IF TruthyStr(task.end_date_override)
    THEN LET parsed_date == ParseDate(task.end_date_override) IN
         IF parsed_date /= ParseError /\ parsed_date >= start_date_for_task
         THEN parsed_date ELSE ParseError
    ELSE ParseError

\* SumDurations with every duration rounded up to whole days first.
RECURSIVE SumDurationsRoundedUp(_, _)
SumDurationsRoundedUp(sub_tasks, k) ==
    IF k = 0 THEN 0
    ELSE SumDurationsRoundedUp(sub_tasks, k - 1)
             + Ceil(sub_tasks[k].duration) * DurDen

\* cumulative_duration_days after k stages (line 231); sum(...) of line 241.
RECURSIVE SumDurations(_, _)
SumDurations(sub_tasks, k) ==
    IF k = 0 THEN 0 ELSE SumDurations(sub_tasks, k - 1) + sub_tasks[k].duration

\* StageDates with the end of a stage counted from the start of the task.
StageDatesEndFromTaskStart(sub_tasks, i, start_date_for_task) ==
    LET start == IF i = 1 THEN start_date_for_task
                 ELSE AddWorkDays(start_date_for_task,
                                  SumDurations(sub_tasks, i - 1))
    IN [sub_tasks[i] EXCEPT
           !.start = start,
           !.end = AddWorkDays(start_date_for_task, sub_tasks[i].duration)]

\* Lines 221-231: stage i of the task.
StageDates(sub_tasks, i, start_date_for_task) ==
    LET start == IF i = 1 THEN start_date_for_task
                 ELSE AddWorkDays(start_date_for_task,
                                  SumDurations(sub_tasks, i - 1))
    IN [sub_tasks[i] EXCEPT
           !.start = start,
           !.end = AddWorkDays(start, sub_tasks[i].duration)]

\* TaskEnd with the override moved off a weekend as a start override is.
TaskEndOffWeekend(task, sub_tasks, start_date_for_task) ==
    IF sub_tasks /= <<>>
    THEN IF EndDateOverride(task, start_date_for_task) /= ParseError
         THEN SkipWeekend(EndDateOverride(task, start_date_for_task))
         ELSE AddWorkDays(sub_tasks[1].start,
                          SumDurations(sub_tasks, Len(sub_tasks)))
    ELSE AddWorkDays(start_date_for_task, 0)

\* TaskEnd with a valid end override used whether or not there are stages.
TaskEndOverrideWithoutStages(task, sub_tasks, start_date_for_task) ==
    IF EndDateOverride(task, start_date_for_task) /= ParseError
    THEN EndDateOverride(task, start_date_for_task)
    ELSE IF sub_tasks /= <<>>
    THEN AddWorkDays(sub_tasks[1].start,
                     SumDurations(sub_tasks, Len(sub_tasks)))
    ELSE AddWorkDays(start_date_for_task, 0)

\* TaskEnd with the task ending when its last stage ends.
TaskEndAtLastStage(task, sub_tasks, start_date_for_task) ==
    LET end_date_override == EndDateOverride(task, start_date_for_task) IN
    IF sub_tasks /= <<>>
    THEN IF end_date_override /= ParseError
         THEN end_date_override
         ELSE sub_tasks[Len(sub_tasks)].end
    ELSE AddWorkDays(start_date_for_task, 0)

\* Lines 234-246: the end of the parent task.
TaskEnd(task, sub_tasks, start_date_for_task) ==
    LET end_date_override == EndDateOverride(task, start_date_for_task) IN
    IF sub_tasks /= <<>>
    THEN IF end_date_override /= ParseError
         THEN end_date_override
         ELSE AddWorkDays(sub_tasks[1].start,
                          SumDurations(sub_tasks, Len(sub_tasks)))
    ELSE AddWorkDays(start_date_for_task, 0)

\* CalculateTaskAndSubtasks with the last stage made to end on a valid end
\* override.
CalculateTaskAndSubtasksFitLastStage(task, start_date_for_task) ==
    LET laid == [i \in 1..Len(task.sub_tasks) |->
                    StageDates(task.sub_tasks, i, start_date_for_task)]
        over == EndDateOverride(task, start_date_for_task)
        sub_tasks == [i \in 1..Len(laid) |->
                         IF i = Len(laid) /\ over /= ParseError
                         THEN [laid[i] EXCEPT !.end = over] ELSE laid[i]]
    IN [task EXCEPT
           !.sub_tasks = sub_tasks,
           !.start = IF sub_tasks /= <<>> THEN sub_tasks[1].start
                     ELSE start_date_for_task,
           !.end = TaskEnd(task, sub_tasks, start_date_for_task)]

CalculateTaskAndSubtasks(task, start_date_for_task) ==
    LET sub_tasks == [i \in 1..Len(task.sub_tasks) |->
                         StageDates(task.sub_tasks, i, start_date_for_task)]
    IN [task EXCEPT
           !.sub_tasks = sub_tasks,
           !.start = IF sub_tasks /= <<>> THEN sub_tasks[1].start
                     ELSE start_date_for_task,
           !.end = TaskEnd(task, sub_tasks, start_date_for_task)]

----------------------------------------------------------------------------
(* _find_dependency_cycle *)

\* parent.get(n) of an empty dict.
NoParents(list) == [n \in Names(list) |-> None]

\* Lines 306-313: the cycle read back from the parent pointers, reversed.
RECURSIVE CycleBack(_, _, _)
CycleBack(parent, task_name, current) ==
    IF TruthyName(current) /\ current /= task_name
    THEN CycleBack(parent, task_name, parent[current]) \o <<current>>
    ELSE <<>>

\* ReconstructCycle without the walk back over the parent pointers.
ReconstructCycleHeadOnly(parent, task_name) == <<task_name, task_name>>

\* ReconstructCycle without cycle.reverse().
RECURSIVE ParentsOf(_, _, _)
ParentsOf(parent, task_name, current) ==
    IF TruthyName(current) /\ current /= task_name
    THEN <<current>> \o ParentsOf(parent, task_name, parent[current])
    ELSE <<>>

ReconstructCycleNotReversed(parent, task_name) ==
    <<task_name>> \o ParentsOf(parent, task_name, parent[task_name])
                  \o <<task_name>>

ReconstructCycle(parent, task_name) ==
    <<task_name>> \o CycleBack(parent, task_name, parent[task_name])
                  \o <<task_name>>

\* dfs(task_name) on the search state st = [visited, in_stack, parent]; the
\* result is the cycle (<<>> for None) with the search state it leaves.
RECURSIVE Dfs(_, _, _)
Dfs(list, task_name, st) ==
    IF task_name \in st.in_stack
    THEN [cycle |-> ReconstructCycle(st.parent, task_name), st |-> st]
    ELSE IF task_name \in st.visited
    THEN [cycle |-> <<>>, st |-> st]
    ELSE
      LET entered == [st EXCEPT !.visited = @ \cup {task_name},
                                !.in_stack = @ \cup {task_name}]
          dep_name == IF task_name \in Names(list)
                      THEN TaskByName(list, task_name).depends_on ELSE None
      IN IF TruthyName(dep_name) /\ dep_name \in Names(list)
         THEN LET r == Dfs(list, dep_name,
                           [entered EXCEPT !.parent[dep_name] = task_name])
              IN IF r.cycle /= <<>> THEN r
                 ELSE [cycle |-> <<>>,
                       st |-> [r.st EXCEPT !.in_stack = @ \ {task_name}]]
         ELSE [cycle |-> <<>>,
               st |-> [entered EXCEPT !.in_stack = @ \ {task_name}]]

\* Lines 334-339: dfs from each task in list order, from position i on.
RECURSIVE DfsFromEach(_, _, _)
DfsFromEach(list, i, st) ==
    IF i > Len(list) THEN <<>>
    ELSE LET r == Dfs(list, list[i].name, st) IN
         IF r.cycle /= <<>> THEN r.cycle ELSE DfsFromEach(list, i + 1, r.st)

FindDependencyCycle(list) ==
    DfsFromEach(list, 1,
                [visited |-> {}, in_stack |-> {}, parent |-> NoParents(list)])

----------------------------------------------------------------------------
(* Error messages: the kind of message and the names it prints *)

NoError == [kind |-> "none", task |-> None, dep |-> None, names |-> <<>>]

\* "Invalid date format for '<task>'. Please use DD-MM-YYYY."
InvalidDateError(task_name) ==
    [kind |-> "invalid_date", task |-> task_name, dep |-> None, names |-> <<>>]

\* "Task '<task>' depends on '<dep>', but no task with that name exists."
MissingDependencyError(task_name, dep_name) ==
    [kind |-> "missing", task |-> task_name, dep |-> dep_name, names |-> <<>>]

\* "Circular dependency detected: <a> -> <b> -> ... -> <a>"
CircularDependencyError(cycle) ==
    [kind |-> "cycle", task |-> None, dep |-> None, names |-> cycle]

\* "Unable to calculate dates for: <a>, <b>, ..."
GenericError(uncalculated) ==
    [kind |-> "generic", task |-> None, dep |-> None, names |-> uncalculated]

\* KeyError('end'), raised while the task of this name is resolved
EndKeyError(task_name) ==
    [kind |-> "key_error", task |-> task_name, dep |-> None, names |-> <<>>]

----------------------------------------------------------------------------
(* _diagnose_dependency_issue *)

\* Lines 141-144: the names of the tasks not calculated, in list order.
RECURSIVE Uncalculated(_, _, _)
Uncalculated(list, calc, i) ==
    IF i > Len(list) THEN <<>>
    ELSE (IF list[i].name \in calc THEN <<>> ELSE <<list[i].name>>)
         \o Uncalculated(list, calc, i + 1)

\* Lines 258-268: whether the task of this name depends on a missing task.
HasMissingDependency(list, task_name) ==
    LET dep_name == TaskByName(list, task_name).depends_on IN
    TruthyName(dep_name) /\ dep_name \notin Names(list)

\* DiagnoseDependencyIssue looking for a cycle before a missing dependency.
DiagnoseDependencyIssueCycleFirst(list, uncalculated) ==
    LET cycle == FindDependencyCycle(list)
        missing == {k \in 1..Len(uncalculated) :
                        HasMissingDependency(list, uncalculated[k])}
    IN IF cycle /= <<>> THEN CircularDependencyError(cycle)
       ELSE IF missing /= {}
       THEN LET k == CHOOSE k \in missing : \A j \in missing : k <= j IN
            MissingDependencyError(uncalculated[k],
                TaskByName(list, uncalculated[k]).depends_on)
       ELSE GenericError(uncalculated)

\* DiagnoseDependencyIssue looking for a missing dependency on the first
\* uncalculated task only.
DiagnoseDependencyIssueFirstTaskOnly(list, uncalculated) ==
    IF uncalculated /= <<>> /\ HasMissingDependency(list, uncalculated[1])
    THEN MissingDependencyError(uncalculated[1],
             TaskByName(list, uncalculated[1]).depends_on)
    ELSE LET cycle == FindDependencyCycle(list) IN
         IF cycle /= <<>> THEN CircularDependencyError(cycle)
         ELSE GenericError(uncalculated)

DiagnoseDependencyIssue(list, uncalculated) ==
    LET missing == {k \in 1..Len(uncalculated) :
                        HasMissingDependency(list, uncalculated[k])}
    IN IF missing /= {}
       THEN LET k == CHOOSE k \in missing : \A j \in missing : k <= j
                task_name == uncalculated[k]
            IN MissingDependencyError(task_name,
                   TaskByName(list, task_name).depends_on)
       ELSE LET cycle == FindDependencyCycle(list) IN
            IF cycle /= <<>> THEN CircularDependencyError(cycle)
            ELSE GenericError(uncalculated)

----------------------------------------------------------------------------
(* Inputs *)

\* Task names in list order, and a name no task has.
TaskNames == <<"A", "B", "C">>
MissingName == "X"

\* Stage names (the palette of config.py) by position, and the first status.
StageNames == <<"Preparation", "Implementation", "Training/Adoption">>
NotStarted == "Not Started"

\* Most stages of a task, longest stage (in 1/DurDen days), and the number
\* of days after Monday 2025-01-20 a project may start.
MaxStages == 2
MaxDuration == 4
MaxStartOffset == 6

Monday20Jan2025 == DateOrd(2025, 1, 20)
ProjectStarts == {Monday20Jan2025 + k : k \in 0..MaxStartOffset}

\* Project starts of a call on a list an earlier call has worked on: a
\* Saturday and the Monday two weeks after the first.
LaterProjectStarts == {DateOrd(2025, 1, 25), DateOrd(2025, 2, 3)}

\* Date strings: a Wednesday, a Friday, a Saturday, a Sunday, a date before
\* every project start, ISO order (not DD-MM-YYYY), and a day no month has.
Wed22Jan == <<"2", "2", "-", "0", "1", "-", "2", "0", "2", "5">>
Fri31Jan == <<"3", "1", "-", "0", "1", "-", "2", "0", "2", "5">>
Sat25Jan == <<"2", "5", "-", "0", "1", "-", "2", "0", "2", "5">>
Sun26Jan == <<"2", "6", "-", "1", "-", "2", "0", "2", "5">>
Fri17Jan == <<"1", "7", "-", "0", "1", "-", "2", "0", "2", "5">>
IsoDate == <<"2", "0", "2", "5", "-", "0", "1", "-", "2", "0">>
Feb30 == <<"3", "0", "-", "0", "2", "-", "2", "0", "2", "5">>

Stage(i, d) ==
    [name |-> StageNames[i], duration |-> d, status |-> NotStarted,
     start |-> Absent, end |-> Absent]

\* Every stage list of a given length over the durations.
StageLists(len, durations) ==
    {[i \in 1..len |-> Stage(i, f[i])] : f \in [1..len -> durations]}

Task(name, profile) ==
    [name |-> name, depends_on |-> profile[1],
     start_date_override |-> profile[2], end_date_override |-> profile[3],
     sub_tasks |-> profile[4], start |-> Absent, end |-> Absent]

\* Every list of n tasks, named TaskNames[1..n] in this order (a list in
\* another order is one of these with the names exchanged), whose
\* (depends_on, start override, end override, stages) come from profiles.
TaskLists(n, profiles) ==
    {[i \in 1..n |-> Task(TaskNames[i], f[i])] : f \in [1..n -> profiles]}

DependsOnValues(n) == {None, MissingName} \cup {TaskNames[i] : i \in 1..n}

\* Dependency study: up to three tasks with every dependency graph over
\* them (self-dependencies, cycles, missing names) and every mix of no,
\* a valid and an invalid start override; each task is one whole day.
DependencyLists ==
    UNION {TaskLists(n, DependsOnValues(n) \X {NoneStr, Sat25Jan, IsoDate}
                        \X {NoneStr} \X StageLists(1, {DurDen}))
           : n \in 0..Len(TaskNames)}

\* Stage study: a task with any stage list, any kind of end override and
\* no, an empty or a weekend start override; alone, or followed or
\* preceded in the list by a one-day task that depends on it.
StageStudyProfiles ==
    {None} \X {NoneStr, <<>>, Sun26Jan}
        \X {NoneStr, <<>>, Wed22Jan, Fri31Jan, Sat25Jan, Fri17Jan, Feb30}
        \X UNION {StageLists(len, 0..MaxDuration) : len \in 0..MaxStages}

Follower(name, dep) ==
    Task(name, <<dep, NoneStr, NoneStr, <<Stage(1, DurDen)>> >>)

StageStudyLists ==
    UNION {{ <<Task(TaskNames[1], p)>>,
             <<Task(TaskNames[1], p), Follower(TaskNames[2], TaskNames[1])>>,
             <<Follower(TaskNames[1], TaskNames[2]), Task(TaskNames[2], p)>> }
           : p \in StageStudyProfiles}

\* A task of three stages: Preparation(2), Implementation(3), Training(1)
\* of the tests, and two half days followed by a whole one.
ThreeStageLists ==
    { << Task(TaskNames[1],
              <<None, NoneStr, NoneStr,
                [i \in 1..3 |-> Stage(i, d[i])]>>) >>
      : d \in { <<2 * DurDen, 3 * DurDen, 1 * DurDen>>,
                <<1, 1, DurDen>> } }

\* A task of one stage, of one day or of five, followed by a task without
\* stages that depends on it, without or with an end override.
MilestoneLists ==
    { << Task(TaskNames[1], <<None, NoneStr, NoneStr, <<Stage(1, d)>> >>),
         Task(TaskNames[2], <<TaskNames[1], NoneStr, eo, <<>> >>) >>
      : d \in {DurDen, 5 * DurDen}, eo \in {NoneStr, Fri31Jan} }

----------------------------------------------------------------------------
(* calculate_task_dates, one call after another on the same list *)

Init ==
    /\ tasks_list \in DependencyLists \cup StageStudyLists
                       \cup ThreeStageLists \cup MilestoneLists
    /\ project_start_date = Absent
    /\ calculated_tasks = {}
    /\ iteration = 0
    /\ idx = 1
    /\ made_progress = FALSE
    /\ pc = "idle"
    /\ error = NoError
    /\ had_dates = FALSE
    /\ args = <<>>
    /\ result = None

\* Lines 100-116: the call clears the dates left by an earlier call.
Call ==
    /\ pc \in {"idle", "returned", "raised"}
    /\ \E ps \in (IF pc = "idle" THEN ProjectStarts ELSE LaterProjectStarts) :
           project_start_date' = ps
    /\ had_dates' = HasDates(tasks_list)
    /\ tasks_list' = ClearDates(tasks_list)
    /\ UNCHANGED <<args, result>>
    /\ calculated_tasks' = {}
    /\ iteration' = 0
    /\ idx' = 1
    /\ made_progress' = FALSE
    /\ pc' = "loop"
    /\ error' = NoError

\* len(tasks_list) * 2
MaxIterations == Len(tasks_list) * 2

\* Lines 117-118: the next pass starts.
BeginPass ==
    /\ pc = "loop"
    /\ iteration < MaxIterations
    /\ made_progress' = FALSE
    /\ idx' = 1
    /\ pc' = "visit"
    /\ UNCHANGED <<args, result, tasks_list, project_start_date, had_dates,
                   calculated_tasks, iteration, error>>

\* Line 150: the passes ran out.
ReturnAfterLoop ==
    /\ pc = "loop"
    /\ iteration >= MaxIterations
    /\ pc' = "returned"
    /\ UNCHANGED <<args, result, tasks_list, project_start_date, had_dates,
                   calculated_tasks, iteration, idx, made_progress, error>>

StartDateForTask ==
    ResolveTaskStartDate(tasks_list[idx], tasks_list, calculated_tasks,
                         project_start_date)

\* Lines 121-122: a calculated task is passed over.
SkipCalculated ==
    /\ pc = "visit"
    /\ idx <= Len(tasks_list)
    /\ tasks_list[idx].name \in calculated_tasks
    /\ idx' = idx + 1
    /\ UNCHANGED <<args, result, tasks_list, project_start_date, had_dates,
                   calculated_tasks, iteration, made_progress, pc, error>>

\* Lines 125-130 when the start is None: the task waits for a later pass.
DeferTask ==
    /\ pc = "visit"
    /\ idx <= Len(tasks_list)
    /\ tasks_list[idx].name \notin calculated_tasks
    /\ StartDateForTask.kind = "defer"
    /\ idx' = idx + 1
    /\ UNCHANGED <<args, result, tasks_list, project_start_date, had_dates,
                   calculated_tasks, iteration, made_progress, pc, error>>

\* Lines 125-133: the task and its stages get their dates.
CalculateTask ==
    /\ pc = "visit"
    /\ idx <= Len(tasks_list)
    /\ tasks_list[idx].name \notin calculated_tasks
    /\ StartDateForTask.kind = "date"
    /\ tasks_list' = [tasks_list EXCEPT ![idx] =
                         CalculateTaskAndSubtasks(@, StartDateForTask.date)]
    /\ calculated_tasks' = calculated_tasks \cup {tasks_list[idx].name}
    /\ made_progress' = TRUE
    /\ idx' = idx + 1
    /\ UNCHANGED <<args, result, project_start_date, had_dates, iteration, pc,
                   error>>

\* Lines 175-178: the start override does not parse; the call raises.
RaiseInvalidDate ==
    /\ pc = "visit"
    /\ idx <= Len(tasks_list)
    /\ tasks_list[idx].name \notin calculated_tasks
    /\ StartDateForTask.kind = "invalid"
    /\ pc' = "raised"
    /\ error' = InvalidDateError(tasks_list[idx].name)
    /\ UNCHANGED <<args, result, tasks_list, project_start_date, had_dates,
                   calculated_tasks, iteration, idx, made_progress>>

\* AllCalculated one task too early.
AllCalculatedButOne == Cardinality(calculated_tasks) >= Len(tasks_list) - 1

AllCalculated == Cardinality(calculated_tasks) = Len(tasks_list)

\* Lines 136-137: every task is calculated.
ReturnAllCalculated ==
    /\ pc = "visit"
    /\ idx > Len(tasks_list)
    /\ AllCalculated
    /\ pc' = "returned"
    /\ UNCHANGED <<args, result, tasks_list, project_start_date, had_dates,
                   calculated_tasks, iteration, idx, made_progress, error>>

\* RaiseNoProgress taking back the dates the call has written.
RaiseNoProgressRollingBack ==
    /\ pc = "visit"
    /\ idx > Len(tasks_list)
    /\ ~AllCalculated
    /\ ~made_progress /\ Cardinality(calculated_tasks) < Len(tasks_list)
    /\ pc' = "raised"
    /\ error' = DiagnoseDependencyIssue(tasks_list,
                     Uncalculated(tasks_list, calculated_tasks, 1))
    /\ tasks_list' = ClearDates(tasks_list)
    /\ UNCHANGED <<args, result, project_start_date, had_dates,
                   calculated_tasks, iteration, idx, made_progress>>

\* Lines 140-148: a pass without progress; the call raises the diagnosis.
RaiseNoProgress ==
    /\ pc = "visit"
    /\ idx > Len(tasks_list)
    /\ ~AllCalculated
    /\ ~made_progress /\ Cardinality(calculated_tasks) < Len(tasks_list)
    /\ pc' = "raised"
    /\ error' = DiagnoseDependencyIssue(tasks_list,
                     Uncalculated(tasks_list, calculated_tasks, 1))
    /\ UNCHANGED <<args, result, tasks_list, project_start_date, had_dates,
                   calculated_tasks, iteration, idx, made_progress>>

\* The pass ends without a return or a raise: on to the next.
NextPass ==
    /\ pc = "visit"
    /\ idx > Len(tasks_list)
    /\ ~AllCalculated
    /\ ~(~made_progress /\ Cardinality(calculated_tasks) < Len(tasks_list))
    /\ iteration' = iteration + 1
    /\ pc' = "loop"
    /\ UNCHANGED <<args, result, tasks_list, project_start_date, had_dates,
                   calculated_tasks, idx, made_progress, error>>

----------------------------------------------------------------------------
(* A whole call as one value: the same steps, run to the return or raise *)

Outcome(end_pc, list, calc, it, err) ==
    [pc |-> end_pc, tasks_list |-> list, calculated_tasks |-> calc,
     iteration |-> it, error |-> err]

\* The loops of lines 117-150 from pass `it`, position i, on.
RECURSIVE RunFrom(_, _, _, _, _, _)
RunFrom(list, calc, it, i, progress, ps) ==
    IF it >= Len(list) * 2
    THEN Outcome("returned", list, calc, it, NoError)
    ELSE IF i <= Len(list)
    THEN IF list[i].name \in calc
         THEN RunFrom(list, calc, it, i + 1, progress, ps)
         ELSE LET r == ResolveTaskStartDate(list[i], list, calc, ps) IN
              CASE r.kind = "invalid" ->
                     Outcome("raised", list, calc, it,
                             InvalidDateError(list[i].name))
                [] r.kind = "key_error" ->
                     Outcome("raised", list, calc, it,
                             EndKeyError(list[i].name))
                [] r.kind = "defer" ->
                     RunFrom(list, calc, it, i + 1, progress, ps)
                [] r.kind = "date" ->
                     RunFrom([list EXCEPT ![i] =
                                 CalculateTaskAndSubtasks(@, r.date)],
                             calc \cup {list[i].name}, it, i + 1, TRUE, ps)
    ELSE IF Cardinality(calc) = Len(list)
    THEN Outcome("returned", list, calc, it, NoError)
    ELSE IF ~progress /\ Cardinality(calc) < Len(list)
    THEN Outcome("raised", list, calc, it,
                 DiagnoseDependencyIssue(list, Uncalculated(list, calc, 1)))
    ELSE RunFrom(list, calc, it + 1, 1, FALSE, ps)

\* calculate_task_dates(list, ps): how the call ends and what it leaves.
CalculateTaskDates(list, ps) ==
    RunFrom(ClearDates(list), {}, 0, 1, FALSE, ps)

\* The stepped call ends as the whole call does.
StepsAgreeWithCall ==
    pc \in {"returned", "raised"} =>
        Outcome(pc, tasks_list, calculated_tasks, iteration, error)
            = CalculateTaskDates(tasks_list, project_start_date)

Next ==
    \/ Call
    \/ BeginPass
    \/ ReturnAfterLoop
    \/ SkipCalculated
    \/ DeferTask
    \/ CalculateTask
    \/ RaiseInvalidDate
    \/ ReturnAllCalculated
    \/ RaiseNoProgress
    \/ NextPass

Spec == Init /\ [][Next]_vars

----------------------------------------------------------------------------
(* Properties *)

Finished == pc \in {"returned", "raised"}

IsCalculated(i) == tasks_list[i].name \in calculated_tasks

HasStartOverride(t) == TruthyStr(t.start_date_override)

\* Monday to Friday.
IsWorkDay(d) == Weekday(d) \in 0..4

\* The first Monday-Friday day strictly after d.
FirstWorkDayAfter(d) ==
    CHOOSE x \in (d + 1)..(d + 3) :
        IsWorkDay(x) /\ \A y \in (d + 1)..(x - 1) : ~IsWorkDay(y)

\* C1: a calculated task with no start override that depends on another
\* task starts on the first Monday-Friday day strictly after the end its
\* predecessor was given.
C1_DependentStartsNextWorkDay ==
    \A i \in 1..Len(tasks_list) :
        LET t == tasks_list[i] IN
        (IsCalculated(i) /\ ~HasStartOverride(t) /\ TruthyName(t.depends_on))
        => /\ t.depends_on \in calculated_tasks
           /\ t.start = FirstWorkDayAfter(TaskByName(tasks_list, t.depends_on).end)

\* C1 witness: the predecessor ends on Friday 2025-01-24 and the dependent
\* starts on Monday 2025-01-27.
C1_Witness ==
    \E i \in 1..Len(tasks_list) :
        LET t == tasks_list[i] IN
        /\ IsCalculated(i) /\ ~HasStartOverride(t) /\ TruthyName(t.depends_on)
        /\ t.depends_on \in calculated_tasks
        /\ TaskByName(tasks_list, t.depends_on).end = DateOrd(2025, 1, 24)
        /\ t.start = DateOrd(2025, 1, 27)

\* The orders of a list of n tasks.
Orders(n) == {f \in [1..n -> 1..n] : \A i, j \in 1..n : f[i] = f[j] => i = j}

Reordered(list, f) == [i \in 1..Len(list) |-> list[f[i]]]

\* C2: when the call returns, the call on the same tasks in any other
\* list order returns too, with the same start and end on every task and
\* every stage.
C2_OrderIndependent ==
    pc = "returned" =>
        \A f \in Orders(Len(tasks_list)) :
            LET r == CalculateTaskDates(Reordered(tasks_list, f),
                                        project_start_date)
            IN /\ r.pc = "returned"
               /\ \A i \in 1..Len(tasks_list) :
                      r.tasks_list[i] = tasks_list[f[i]]

\* C2 witness: a chain of three listed dependents-first (A on B, B on C),
\* which takes three passes.
C2_Witness ==
    /\ pc = "returned"
    /\ Len(tasks_list) = 3
    /\ tasks_list[1].depends_on = tasks_list[2].name
    /\ tasks_list[2].depends_on = tasks_list[3].name
    /\ ~HasStartOverride(tasks_list[1]) /\ ~HasStartOverride(tasks_list[2])
    /\ iteration = 2
    /\ tasks_list[3].end < tasks_list[2].start
    /\ tasks_list[2].end < tasks_list[1].start

----------------------------------------------------------------------------
(* The dependency graph, read off the list *)

\* The depends_on of the task named n; None when no task has the name.
DependsOn(list, n) ==
    IF n \in Names(list) THEN TaskByName(list, n).depends_on ELSE None

\* The name reached from n by following depends_on k times; None when the
\* chain ends before.
RECURSIVE Follow(_, _, _)
Follow(list, n, k) ==
    IF k = 0 THEN n
    ELSE IF TruthyName(DependsOn(list, n))
    THEN Follow(list, DependsOn(list, n), k - 1)
    ELSE None

OnCycle(list, n) ==
    n \in Names(list) /\ \E k \in 1..Len(list) : Follow(list, n, k) = n

HasCycle(list) == \E n \in Names(list) : OnCycle(list, n)

\* The tasks on the cycle through n.
CycleThrough(list, n) == {Follow(list, n, k) : k \in 1..Len(list)}

MissingReference(t, list) ==
    TruthyName(t.depends_on) /\ t.depends_on \notin Names(list)

HasMissingReference(list) ==
    \E i \in 1..Len(list) : MissingReference(list[i], list)

InvalidStartOverride(t) ==
    HasStartOverride(t) /\ ParseDate(t.start_date_override) = ParseError

HasInvalidStartOverride(list) ==
    \E i \in 1..Len(list) : InvalidStartOverride(list[i])

----------------------------------------------------------------------------
(* C3 *)

Running == pc \in {"loop", "visit"}

\* How the call in progress ends when its loops are run on from here.
RestOfCall ==
    IF pc = "loop"
    THEN RunFrom(tasks_list, calculated_tasks, iteration, 1, FALSE,
                 project_start_date)
    ELSE RunFrom(tasks_list, calculated_tasks, iteration, idx, made_progress,
                 project_start_date)

EveryTaskResolved ==
    \A i \in 1..Len(tasks_list) :
        /\ IsCalculated(i)
        /\ tasks_list[i].start /= Absent /\ tasks_list[i].end /= Absent

\* Tasks resolved in the passes before the current one are the only ones
\* calculated when the pass ends with made_progress false.
RaisedAtPassWithoutProgress ==
    /\ error.kind \in {"missing", "cycle", "generic"}
    /\ ~made_progress
    /\ idx > Len(tasks_list)
    /\ ~EveryTaskResolved

\* C3 as stated: a call on N >= 1 tasks ends by returning with every task
\* resolved or by raising at a pass in which no task was newly resolved;
\* without a cycle or a missing reference it returns, within N passes.
C3_Original ==
    Len(tasks_list) >= 1 =>
        /\ iteration < Len(tasks_list)
        /\ pc = "returned" => EveryTaskResolved
        /\ pc = "raised" => ~made_progress
        /\ (Finished /\ ~HasCycle(tasks_list)
                /\ ~HasMissingReference(tasks_list)) => pc = "returned"

\* The state part of C3 as amended.
C3_EndsOneOfThreeWays ==
    Len(tasks_list) >= 1 =>
        /\ iteration < Len(tasks_list)
        /\ Running => RestOfCall.pc \in {"returned", "raised"}
        /\ pc = "returned" => EveryTaskResolved
        /\ pc = "raised" =>
               \/ error.kind = "invalid_date" /\ iteration = 0
                    /\ idx <= Len(tasks_list)
               \/ RaisedAtPassWithoutProgress
        /\ (Finished /\ ~HasCycle(tasks_list)
                /\ ~HasMissingReference(tasks_list)
                /\ ~HasInvalidStartOverride(tasks_list)) => pc = "returned"

\* Position of a running call: pass, then loop header before loop body,
\* then place in the list.
Before(it1, pc1, idx1, it2, pc2, idx2) ==
    \/ it1 < it2
    \/ it1 = it2 /\ pc1 = "loop" /\ pc2 = "visit"
    \/ it1 = it2 /\ pc1 = pc2 /\ idx1 < idx2

\* C3 (amended): a call on N >= 1 tasks ends in one of three ways: it
\* returns with every task resolved, it raises the invalid-date-format
\* error during the first pass, or it raises at the first pass in which no
\* task was newly resolved (every pass that is followed by another made
\* progress). Every step of a running call ends it or moves it forward
\* within N passes of N visits, so it terminates and never runs out of its
\* 2*N passes; without a cycle, a missing reference or an invalid start
\* override it returns.
C3_Termination ==
    /\ [](C3_EndsOneOfThreeWays)
    /\ [][(Len(tasks_list) >= 1 /\ pc = "visit" /\ pc' = "loop")
            => made_progress]_vars
    /\ [][(Len(tasks_list) >= 1 /\ Running)
            => \/ Finished'
               \/ /\ Running'
                  /\ idx' <= Len(tasks_list) + 1
                  /\ Before(iteration, pc, idx, iteration', pc', idx')]_vars

\* C3 witness: three tasks, one resolved in each of two passes, and the
\* raise at the third pass, the first without progress.
C3_Witness ==
    /\ pc = "raised"
    /\ Len(tasks_list) = 3
    /\ iteration = 2
    /\ ~made_progress
    /\ Cardinality(calculated_tasks) = 2

----------------------------------------------------------------------------
(* C4, C5 *)

NameSet(seq) == {seq[k] : k \in 1..Len(seq)}

\* C4 as stated: whenever the depends_on edges contain a cycle, the call
\* raises the circular-dependency error, naming every task of a cycle.
C4_Original ==
    (Finished /\ HasCycle(tasks_list)) =>
        /\ pc = "raised"
        /\ error.kind = "cycle"
        /\ \E n \in Names(tasks_list) :
               OnCycle(tasks_list, n)
                   /\ CycleThrough(tasks_list, n) \subseteq NameSet(error.names)

\* A cycle none of whose tasks has a start override.
HasBlockingCycle(list) ==
    \E n \in Names(list) :
        /\ OnCycle(list, n)
        /\ \A m \in CycleThrough(list, n) : ~HasStartOverride(TaskByName(list, m))

\* A task without start override that names an absent task.
BlockedByMissing(t, list) == MissingReference(t, list) /\ ~HasStartOverride(t)

HasBlockedByMissing(list) ==
    \E i \in 1..Len(list) : BlockedByMissing(list[i], list)

\* C4 (amended): whenever the depends_on edges contain a cycle none of
\* whose tasks has a start override, no start override is invalid and no
\* task without a start override names an absent task, the call raises
\* the circular-dependency error; and the message of every such error
\* names exactly the tasks of one cycle of the graph.
C4_CycleReported ==
    /\ (Finished /\ HasBlockingCycle(tasks_list)
            /\ ~HasInvalidStartOverride(tasks_list)
            /\ ~HasBlockedByMissing(tasks_list))
       => pc = "raised" /\ error.kind = "cycle"
    /\ (pc = "raised" /\ error.kind = "cycle")
       => /\ Len(error.names) >= 2
          /\ OnCycle(tasks_list, error.names[1])
          /\ NameSet(error.names) = CycleThrough(tasks_list, error.names[1])

\* C4 witness: A depends on B and B on A; the error reads A -> B -> A
\* although a third task was resolved.
C4_Witness ==
    /\ pc = "raised"
    /\ Len(tasks_list) = 3
    /\ tasks_list[1].depends_on = tasks_list[2].name
    /\ tasks_list[2].depends_on = tasks_list[1].name
    /\ IsCalculated(3)
    /\ error = CircularDependencyError(
                   <<tasks_list[1].name, tasks_list[2].name, tasks_list[1].name>>)

\* C5 as stated: whenever a task's depends_on names an absent task, the
\* call raises an error naming that task and the missing name.
C5_Original ==
    (Finished /\ HasMissingReference(tasks_list)) =>
        /\ pc = "raised"
        /\ error.kind = "missing"
        /\ \E i \in 1..Len(tasks_list) :
               /\ MissingReference(tasks_list[i], tasks_list)
               /\ error.task = tasks_list[i].name
               /\ error.dep = tasks_list[i].depends_on

\* C5 (amended): whenever some task without a start override names an
\* absent task in depends_on and no start override is invalid, the call
\* raises the missing-dependency error, naming the first such task in list
\* order and the name it depends on.
C5_MissingReported ==
    (Finished /\ HasBlockedByMissing(tasks_list)
        /\ ~HasInvalidStartOverride(tasks_list))
    => LET first == CHOOSE i \in 1..Len(tasks_list) :
                        /\ BlockedByMissing(tasks_list[i], tasks_list)
                        /\ \A j \in 1..(i - 1) :
                               ~BlockedByMissing(tasks_list[j], tasks_list)
       IN /\ pc = "raised"
          /\ error = MissingDependencyError(tasks_list[first].name,
                                            tasks_list[first].depends_on)

\* C5 witness: the first task names an absent task but has a start
\* override and is resolved; the error names the second task, which sits
\* beside a cycle.
C5_Witness ==
    /\ pc = "raised"
    /\ Len(tasks_list) = 3
    /\ MissingReference(tasks_list[1], tasks_list) /\ IsCalculated(1)
    /\ error = MissingDependencyError(tasks_list[2].name, MissingName)
    /\ OnCycle(tasks_list, tasks_list[3].name)

----------------------------------------------------------------------------
(* C6, C7 *)

\* Position i was visited by the current call.
Visited(i) == iteration > 0 \/ idx > i

ValidStartOverride(t) ==
    HasStartOverride(t) /\ ParseDate(t.start_date_override) /= ParseError

\* A Saturday or Sunday moved to the following Monday.
FollowingMondayIfWeekend(d) ==
    IF Weekday(d) = 5 THEN d + 2 ELSE IF Weekday(d) = 6 THEN d + 1 ELSE d

C7_InvalidStartOverrideAborts ==
    HasInvalidStartOverride(tasks_list) =>
        LET first == CHOOSE i \in 1..Len(tasks_list) :
                         /\ InvalidStartOverride(tasks_list[i])
                         /\ \A j \in 1..(i - 1) :
                                ~InvalidStartOverride(tasks_list[j])
        IN /\ pc /= "returned"
           /\ iteration = 0
           /\ idx <= first
           /\ pc = "raised" => /\ error = InvalidDateError(tasks_list[first].name)
                               /\ idx = first

\* C7 witness: the error for an ISO-ordered override on the third task,
\* raised although the first two tasks depend on each other and none is
\* resolved.
C7_Witness ==
    /\ pc = "raised"
    /\ Len(tasks_list) = 3
    /\ tasks_list[3].start_date_override = IsoDate
    /\ tasks_list[3].depends_on = MissingName
    /\ OnCycle(tasks_list, tasks_list[1].name)
    /\ calculated_tasks = {}
    /\ error = InvalidDateError(tasks_list[3].name)

----------------------------------------------------------------------------
(* C8, C9, C10 *)

HasEndOverride(t) == TruthyStr(t.end_date_override)

\* The end override parses and is on or after the start the task got.
ValidEndOverride(t) ==
    /\ HasEndOverride(t)
    /\ ParseDate(t.end_date_override) /= ParseError
    /\ ParseDate(t.end_date_override) >= t.start

\* C8 as stated: a resolved task with a valid end override, whatever its
\* number of stages (none included), ends on the override date.
C8_Original ==
    \A i \in 1..Len(tasks_list) :
        LET t == tasks_list[i] IN
        (IsCalculated(i) /\ ValidEndOverride(t))
        => t.end = ParseDate(t.end_date_override)

\* C8 (amended): a resolved task with at least one stage and a valid end
\* override ends on the override date itself, weekend or not.
C8_EndOverrideVerbatim ==
    \A i \in 1..Len(tasks_list) :
        LET t == tasks_list[i] IN
        (IsCalculated(i) /\ ValidEndOverride(t) /\ t.sub_tasks /= <<>>)
        => t.end = ParseDate(t.end_date_override)

\* C8 witness: a task of two stages starting Monday 2025-01-20 with end
\* override 25-01-2025 ends on that Saturday.
C8_Witness ==
    \E i \in 1..Len(tasks_list) :
        LET t == tasks_list[i] IN
        /\ IsCalculated(i)
        /\ Len(t.sub_tasks) = 2
        /\ t.end_date_override = Sat25Jan
        /\ t.start = DateOrd(2025, 1, 20)
        /\ t.end = DateOrd(2025, 1, 25)
        /\ Weekday(t.end) = 5

WithoutEndOverride(list, i) ==
    [list EXCEPT ![i].end_date_override = NoneStr]

\* C9: when a call ends, the call on the same list with the end override
\* of one task removed ends the same way and leaves that task the same
\* start and the same stage starts and ends.
C9_EndOverrideOnlyMovesTaskEnd ==
    Finished =>
        \A i \in 1..Len(tasks_list) :
            HasEndOverride(tasks_list[i]) =>
                LET r == CalculateTaskDates(WithoutEndOverride(tasks_list, i),
                                            project_start_date)
                IN /\ r.pc = pc
                   /\ r.error = error
                   /\ r.tasks_list[i].start = tasks_list[i].start
                   /\ r.tasks_list[i].sub_tasks = tasks_list[i].sub_tasks

\* C9 witness: a call returned with a task of two stages that ends on its
\* valid end override while its second stage ends after that.
C9_Witness ==
    /\ pc = "returned"
    /\ \E i \in 1..Len(tasks_list) :
           LET t == tasks_list[i] IN
           /\ ValidEndOverride(t)
           /\ Len(t.sub_tasks) = 2
           /\ t.sub_tasks[2].end > t.end
           /\ t.end = ParseDate(t.end_date_override)

RECURSIVE TotalDuration(_)
TotalDuration(sub_tasks) ==
    IF sub_tasks = <<>> THEN 0
    ELSE sub_tasks[1].duration + TotalDuration(Tail(sub_tasks))

\* The end override of task i does not parse, or the task is resolved and
\* the override parses to a date before its start.
BadEndOverride(i) ==
    LET t == tasks_list[i] IN
    /\ HasEndOverride(t)
    /\ \/ ParseDate(t.end_date_override) = ParseError
       \/ IsCalculated(i) /\ ParseDate(t.end_date_override) < t.start

\* C10: a resolved task whose end override does not parse, or parses to a
\* date before the task's start, ends at add_work_days(start, sum of the
\* stage durations); and when a call ends, the call on the same list with
\* such an override removed ends the same way (returns, or raises the same
\* error) with the same dates on every task and stage.
C10_BadEndOverrideIgnored ==
    /\ \A i \in 1..Len(tasks_list) :
           (IsCalculated(i) /\ BadEndOverride(i))
           => tasks_list[i].end =
                  AddWorkDays(tasks_list[i].start,
                              TotalDuration(tasks_list[i].sub_tasks))
    /\ Finished =>
           \A i \in 1..Len(tasks_list) :
               BadEndOverride(i) =>
                   LET r == CalculateTaskDates(
                                WithoutEndOverride(tasks_list, i),
                                project_start_date)
                   IN /\ r.pc = pc
                      /\ r.error = error
                      /\ r.tasks_list = WithoutEndOverride(tasks_list, i)

\* C10 witness: end override 17-01-2025 lies before the start Monday
\* 2025-01-20 of a task of stages 1.5 and 2 days, which ends on Thursday
\* 2025-01-23 (4 work days).
C10_Witness ==
    \E i \in 1..Len(tasks_list) :
        LET t == tasks_list[i] IN
        /\ IsCalculated(i)
        /\ t.end_date_override = Fri17Jan
        /\ t.start = DateOrd(2025, 1, 20)
        /\ Len(t.sub_tasks) = 2
        /\ t.sub_tasks[1].duration = 3 /\ t.sub_tasks[2].duration = 4
        /\ t.end = DateOrd(2025, 1, 23)

\* C10 witness for the other case: end override 30-02-2025 names no date.
C10_WitnessUnparsable ==
    \E i \in 1..Len(tasks_list) :
        LET t == tasks_list[i] IN
        /\ IsCalculated(i)
        /\ t.end_date_override = Feb30
        /\ t.sub_tasks /= <<>>
        /\ t.end = AddWorkDays(t.start, TotalDuration(t.sub_tasks))
        /\ t.end > t.start

----------------------------------------------------------------------------
(* C11 *)

\* The task list with no 'start' and no 'end' key anywhere.
WithoutDates(list) ==
    [i \in 1..Len(list) |->
        [name |-> list[i].name, depends_on |-> list[i].depends_on,
         start_date_override |-> list[i].start_date_override,
         end_date_override |-> list[i].end_date_override,
         start |-> Absent, end |-> Absent,
         sub_tasks |-> [k \in 1..Len(list[i].sub_tasks) |->
             [name |-> list[i].sub_tasks[k].name,
              duration |-> list[i].sub_tasks[k].duration,
              status |-> list[i].sub_tasks[k].status,
              start |-> Absent, end |-> Absent]]]]

\* C11: once a call has begun, whatever earlier calls left on the list, a
\* task the call has not resolved carries no start or end on itself or its
\* stages, and when the call ends (returns or raises) the list, the error
\* and the set of resolved tasks are those of the same loops run on the
\* list with every start and end absent.
C11_NeverIncremental ==
    /\ pc /= "idle" =>
           \A i \in 1..Len(tasks_list) :
               ~IsCalculated(i) =>
                   ~HasDates(<<tasks_list[i]>>)
    /\ Finished =>
           Outcome(pc, tasks_list, calculated_tasks, iteration, error)
               = RunFrom(WithoutDates(tasks_list), {}, 0, 1, FALSE,
                         project_start_date)

\* C11 witness: a call with project start 2025-02-03 on a list that held
\* the dates of an earlier call returned; its task without dependency and
\* its first stage start on 2025-02-03.
C11_Witness ==
    /\ had_dates
    /\ pc = "returned"
    /\ project_start_date = DateOrd(2025, 2, 3)
    /\ tasks_list[1].depends_on = None
    /\ ~HasStartOverride(tasks_list[1])
    /\ tasks_list[1].start = DateOrd(2025, 2, 3)
    /\ tasks_list[1].sub_tasks /= <<>>
    /\ tasks_list[1].sub_tasks[1].start = DateOrd(2025, 2, 3)

\* C11 witness for a call after a raise: the earlier call left dates on
\* the list and raised, and so does this one.
C11_WitnessAfterRaise ==
    /\ had_dates
    /\ pc = "raised"
    /\ calculated_tasks /= {}

----------------------------------------------------------------------------
(* C12 *)

\* Sum of the durations of the first k stages (in 1/DurDen days).
DurationBefore(sub_tasks, k) == TotalDuration(SubSeq(sub_tasks, 1, k))

\* C12: the stages of a resolved task are laid out from the task start by
\* running cumulative duration: the first stage starts at the task start,
\* stage k > 1 starts at add_work_days(task start, unrounded sum of the
\* durations before it), every stage ends at add_work_days(its start, its
\* duration), and without a valid end override the task ends at
\* add_work_days(task start, sum of all stage durations).
C12_StagesLaidOutByCumulativeDuration ==
    \A i \in 1..Len(tasks_list) :
        LET t == tasks_list[i]
            st == t.sub_tasks
        IN (IsCalculated(i) /\ st /= <<>>) =>
            /\ st[1].start = t.start
            /\ \A k \in 2..Len(st) :
                   st[k].start = AddWorkDays(t.start, DurationBefore(st, k - 1))
            /\ \A k \in 1..Len(st) :
                   st[k].end = AddWorkDays(st[k].start, st[k].duration)
            /\ ~ValidEndOverride(t) =>
                   t.end = AddWorkDays(t.start, TotalDuration(st))

\* C12 witness: Preparation(2), Implementation(3), Training(1) from Monday
\* 2025-01-20 are laid out on 20-21, 21-23 and 24-24; the task ends at
\* add_work_days(20th, 6), Monday the 27th.
C12_Witness ==
    \E i \in 1..Len(tasks_list) :
        LET t == tasks_list[i]
            st == t.sub_tasks
        IN /\ IsCalculated(i)
           /\ Len(st) = 3
           /\ st[1].duration = 2 * DurDen
           /\ st[2].duration = 3 * DurDen
           /\ st[3].duration = 1 * DurDen
           /\ t.start = DateOrd(2025, 1, 20)
           /\ st[1].start = DateOrd(2025, 1, 20) /\ st[1].end = DateOrd(2025, 1, 21)
           /\ st[2].start = DateOrd(2025, 1, 21) /\ st[2].end = DateOrd(2025, 1, 23)
           /\ st[3].start = DateOrd(2025, 1, 24) /\ st[3].end = DateOrd(2025, 1, 24)
           /\ t.end = DateOrd(2025, 1, 27)

\* C12 witness for the unrounded sum: after two stages of half a day the
\* third starts on the day the task starts.
C12_WitnessUnrounded ==
    \E i \in 1..Len(tasks_list) :
        LET t == tasks_list[i]
            st == t.sub_tasks
        IN /\ IsCalculated(i)
           /\ Len(st) = 3
           /\ st[1].duration = 1 /\ st[2].duration = 1
           /\ IsWorkDay(t.start)
           /\ st[3].start = t.start

----------------------------------------------------------------------------
(* C13 *)

\* Neither a start override nor a dependency determines the start.
StartsByDefault(t) == ~HasStartOverride(t) /\ ~TruthyName(t.depends_on)

\* C13: a task with no start override and no dependency is resolved by the
\* first visit of the call and starts exactly on the project start date of
\* the call, a Saturday or Sunday included; so does its first stage.
C13_DefaultStartIsProjectStart ==
    \A i \in 1..Len(tasks_list) :
        LET t == tasks_list[i] IN
        ((Running \/ Finished) /\ Visited(i) /\ StartsByDefault(t))
        => /\ IsCalculated(i)
           /\ t.start = project_start_date
           /\ t.sub_tasks /= <<>> => t.sub_tasks[1].start = project_start_date

\* C13 witness: the project starts on Saturday 2025-01-25 and so does a
\* task without override and dependency.
C13_Witness ==
    \E i \in 1..Len(tasks_list) :
        /\ IsCalculated(i)
        /\ StartsByDefault(tasks_list[i])
        /\ project_start_date = DateOrd(2025, 1, 25)
        /\ Weekday(project_start_date) = 5
        /\ tasks_list[i].start = DateOrd(2025, 1, 25)

----------------------------------------------------------------------------
(* C14 *)

\* The start date resolved for task i: from its start override, else from
\* the end of its predecessor, else the project start.
ResolvedStart(i) ==
    LET t == tasks_list[i] IN
    IF HasStartOverride(t)
    THEN FollowingMondayIfWeekend(ParseDate(t.start_date_override))
    ELSE IF TruthyName(t.depends_on)
    THEN FirstWorkDayAfter(TaskByName(tasks_list, t.depends_on).end)
    ELSE project_start_date

\* C14: a resolved task whose sub_tasks list is empty is a zero-duration
\* milestone: its start and its end both equal its resolved start date,
\* whatever end override it has.
C14_NoStagesIsMilestone ==
    \A i \in 1..Len(tasks_list) :
        LET t == tasks_list[i] IN
        (IsCalculated(i) /\ t.sub_tasks = <<>>)
        => /\ t.start = ResolvedStart(i)
           /\ t.end = ResolvedStart(i)

\* C14 witness: a task without stages follows a task that ends on Friday
\* 2025-01-24; it starts and ends on Monday 2025-01-27 although its end
\* override says the 31st.
C14_Witness ==
    \E i \in 1..Len(tasks_list) :
        LET t == tasks_list[i] IN
        /\ IsCalculated(i)
        /\ t.sub_tasks = <<>>
        /\ TruthyName(t.depends_on)
        /\ TaskByName(tasks_list, t.depends_on).end = DateOrd(2025, 1, 24)
        /\ t.end_date_override = Fri31Jan
        /\ t.start = DateOrd(2025, 1, 27)
        /\ t.end = DateOrd(2025, 1, 27)

\* C14 witness for a weekend: the project starts on Sunday 2025-01-26 and
\* the milestone starts and ends on that day.
C14_WitnessWeekend ==
    \E i \in 1..Len(tasks_list) :
        LET t == tasks_list[i] IN
        /\ IsCalculated(i)
        /\ t.sub_tasks = <<>>
        /\ t.start = DateOrd(2025, 1, 26)
        /\ t.end = DateOrd(2025, 1, 26)

----------------------------------------------------------------------------
(* add_work_days and count_work_days applied to dates and durations *)

\* Dates run over DateSpan days from Monday 2025-01-20, and durations from
\* -MaxDuration to MaxWorkDays days (in 1/DurDen days).
DateSpan == 14
MaxWorkDays == 12

Dates == {Monday20Jan2025 + k : k \in 0..(DateSpan - 1)}
Durations == (-MaxDuration)..(MaxWorkDays * DurDen)

InitWorkDays ==
    /\ tasks_list = <<>>
    /\ project_start_date = Absent
    /\ calculated_tasks = {}
    /\ iteration = 0
    /\ idx = 1
    /\ made_progress = FALSE
    /\ pc = "idle"
    /\ error = NoError
    /\ had_dates = FALSE
    /\ args = <<>>
    /\ result = None

\* add_work_days(start_date, duration_days)
ApplyAddWorkDays ==
    /\ \E start_date \in Dates, duration_days \in Durations :
           /\ args' = <<"add_work_days", start_date, duration_days>>
           /\ result' = AddWorkDays(start_date, duration_days)
    /\ UNCHANGED <<tasks_list, call_vars>>

\* count_work_days(start_date, end_date)
ApplyCountWorkDays ==
    /\ \E start_date \in Dates, end_date \in Dates :
           /\ args' = <<"count_work_days", start_date, end_date>>
           /\ result' = CountWorkDays(start_date, end_date)
    /\ UNCHANGED <<tasks_list, call_vars>>

NextWorkDays ==
    \/ ApplyAddWorkDays
    \/ ApplyCountWorkDays

SpecWorkDays == InitWorkDays /\ [][NextWorkDays]_vars

----------------------------------------------------------------------------
(* C15, C16, C17 *)

Applied(f) == args /= <<>> /\ args[1] = f

\* The Monday-Friday days of the dates a..b.
WorkDaysIn(a, b) == {x \in a..b : IsWorkDay(x)}

\* The date reached from Monday-Friday d by advancing k >= 0 business days.
Advance(d, k) ==
    IF k = 0 THEN d
    ELSE CHOOSE x \in d..(d + 2 * k + 2) :
             IsWorkDay(x) /\ Cardinality(WorkDaysIn(d + 1, x)) = k

\* ceil(n) - 1 or 0, whichever is more, for n in 1/DurDen days.
DaysToAdvance(n) ==
    LET whole == CHOOSE c \in (IF n < 0 THEN n ELSE 0)..(IF n < 0 THEN 0 ELSE n) :
                     c * DurDen >= n /\ (c - 1) * DurDen < n
    IN IF whole - 1 > 0 THEN whole - 1 ELSE 0

\* C15: for every Monday-Friday d, add_work_days(d, n) is the date reached
\* by advancing max(ceil(n) - 1, 0) business days from d: d itself for
\* n = 0, for 0 < n <= 1 and for negative n; a Monday-Friday day; never
\* before d.
C15_AddWorkDays ==
    (Applied("add_work_days") /\ IsWorkDay(args[2])) =>
        LET d == args[2]
            n == args[3]
        IN /\ result = Advance(d, DaysToAdvance(n))
           /\ n <= DurDen => result = d
           /\ IsWorkDay(result)
           /\ result >= d

\* C15 witness: Friday 2025-01-24 plus 2.5 days is Tuesday 2025-01-28
\* (rounded up to 3 days: Friday, Monday, Tuesday).
C15_Witness ==
    /\ args = <<"add_work_days", DateOrd(2025, 1, 24), 5>>
    /\ result = DateOrd(2025, 1, 28)

\* C15 witness for a negative duration: the start comes back.
C15_WitnessNegative ==
    /\ Applied("add_work_days")
    /\ IsWorkDay(args[2])
    /\ args[3] < 0
    /\ result = args[2]

\* C16: for every Monday-Friday d and whole n >= 1,
\* count_work_days(d, add_work_days(d, n)) = n.
C16_CountInvertsAdd ==
    (Applied("add_work_days") /\ IsWorkDay(args[2])
        /\ args[3] >= DurDen /\ args[3] % DurDen = 0)
    => CountWorkDays(args[2], result) * DurDen = args[3]

\* C16 witness: Thursday 2025-01-23 plus 8 days is Monday 2025-02-03,
\* across two weekends, and the count back is 8.
C16_Witness ==
    /\ args = <<"add_work_days", DateOrd(2025, 1, 23), 8 * DurDen>>
    /\ result = DateOrd(2025, 2, 3)
    /\ CountWorkDays(args[2], result) = 8

\* C17: count_work_days(a, b) is the number of Monday-Friday days in the
\* inclusive range [a, b]: 0 whenever b < a, 1 for a single Monday-Friday
\* day, 0 for a range of Saturday and Sunday only, 5 for a Monday-to-Friday
\* or Monday-to-Sunday week.
C17_CountWorkDays ==
    Applied("count_work_days") =>
        LET a == args[2]
            b == args[3]
        IN /\ result = Cardinality(WorkDaysIn(a, b))
           /\ b < a => result = 0
           /\ (a = b /\ IsWorkDay(a)) => result = 1
           /\ (a <= b /\ b <= a + 1 /\ ~IsWorkDay(a) /\ ~IsWorkDay(b))
                  => result = 0
           /\ (Weekday(a) = 0 /\ b \in {a + 4, a + 6}) => result = 5

\* C17 witness: Monday 2025-01-20 to Sunday 2025-01-26 holds 5 work days.
C17_Witness ==
    /\ args = <<"count_work_days", DateOrd(2025, 1, 20), DateOrd(2025, 1, 26)>>
    /\ result = 5

\* C17 witness for an end before the start.
C17_WitnessReversed ==
    /\ Applied("count_work_days")
    /\ args[3] < args[2]
    /\ result = 0

----------------------------------------------------------------------------
(* would_create_cycle and get_dependency_chain *)

\* The value the editor shows for "no dependency" (line 358).
NoneOption == "None"

\* Lines 371-382: the walk from `current` along depends_on.
RECURSIVE WouldCreateCycleWalk(_, _, _, _)
WouldCreateCycleWalk(list, task_name, current, visited) ==
    IF ~TruthyName(current) THEN FALSE
    ELSE IF current = task_name THEN TRUE
    ELSE IF current \in visited THEN FALSE
    ELSE IF current \in Names(list)
    THEN WouldCreateCycleWalk(list, task_name,
                              TaskByName(list, current).depends_on,
                              visited \cup {current})
    ELSE FALSE

WouldCreateCycle(list, task_name, proposed_dependency) ==
    IF ~TruthyName(proposed_dependency) \/ proposed_dependency = NoneOption
    THEN FALSE
    ELSE IF task_name = proposed_dependency THEN TRUE
    ELSE WouldCreateCycleWalk(list, task_name, proposed_dependency, {})

\* f"{dep_name} (cycle!)"
CycleMarked(dep_name) == dep_name \o " (cycle!)"

\* Lines 399-413: the walk from `current`, with the chain so far.
RECURSIVE ChainWalk(_, _, _, _)
ChainWalk(list, current, chain, visited) ==
    IF ~TruthyName(current) THEN chain
    ELSE IF current \notin Names(list) THEN chain
    ELSE LET dep_name == TaskByName(list, current).depends_on IN
         IF TruthyName(dep_name)
         THEN IF dep_name \in visited
              THEN Append(chain, CycleMarked(dep_name))
              ELSE ChainWalk(list, dep_name, Append(chain, dep_name),
                             visited \cup {dep_name})
         ELSE chain

GetDependencyChain(list, task_name) == ChainWalk(list, task_name, <<>>, {})

----------------------------------------------------------------------------
(* The functions over a dependency graph, applied to task lists *)

\* Names of the tasks of a graph, in list order: A, B, C, or with a task
\* that is called None.
GraphNames == {TaskNames, <<"A", NoneOption, "B">>}

GraphTask(name, dep) == Task(name, <<dep, NoneStr, NoneStr, <<>> >>)

\* Every graph over up to three tasks: a task depends on nothing (None or
\* the empty string), on a task of the list (itself included) or on a name
\* no task has.
GraphLists ==
    UNION {{[i \in 1..n |-> GraphTask(names[i], dep[i])] :
               dep \in [1..n -> {None, "", MissingName}
                                   \cup {names[i] : i \in 1..n}]}
           : n \in 0..Len(TaskNames), names \in GraphNames}

InitGraph ==
    /\ tasks_list \in GraphLists
    /\ project_start_date = Absent
    /\ calculated_tasks = {}
    /\ iteration = 0
    /\ idx = 1
    /\ made_progress = FALSE
    /\ pc = "idle"
    /\ error = NoError
    /\ had_dates = FALSE
    /\ args = <<>>
    /\ result = None

\* would_create_cycle(tasks_list, task_name, proposed_dependency)
ApplyWouldCreateCycle ==
    /\ \E task_name \in Names(tasks_list),
          proposed_dependency \in Names(tasks_list)
                                    \cup {None, "", NoneOption, MissingName} :
           /\ args' = <<"would_create_cycle", task_name, proposed_dependency>>
           /\ result' = WouldCreateCycle(tasks_list, task_name,
                                         proposed_dependency)
    /\ UNCHANGED <<tasks_list, call_vars>>

\* get_dependency_chain(tasks_list, task_name)
ApplyGetDependencyChain ==
    /\ \E task_name \in Names(tasks_list) \cup {MissingName} :
           /\ args' = <<"get_dependency_chain", task_name>>
           /\ result' = GetDependencyChain(tasks_list, task_name)
    /\ UNCHANGED <<tasks_list, call_vars>>

\* _find_dependency_cycle(tasks_list, tasks_by_name); <<>> stands for None.
ApplyFindDependencyCycle ==
    /\ args' = <<"_find_dependency_cycle">>
    /\ result' = FindDependencyCycle(tasks_list)
    /\ UNCHANGED <<tasks_list, call_vars>>

NextGraph ==
    \/ ApplyWouldCreateCycle
    \/ ApplyGetDependencyChain
    \/ ApplyFindDependencyCycle

SpecGraph == InitGraph /\ [][NextGraph]_vars

----------------------------------------------------------------------------
(* C18 *)

\* The list after task t is made to depend on p.
WithDependsOn(list, t, p) ==
    [i \in 1..Len(list) |->
        IF list[i].name = t THEN [list[i] EXCEPT !.depends_on = p] ELSE list[i]]

\* t = p, or t is reached from p by following depends_on edges.
ReachedFrom(list, t, p) ==
    \E k \in 0..Len(list) : TruthyName(p) /\ Follow(list, p, k) = t

\* C18 as stated: would_create_cycle(tasks, t, p) is True exactly when
\* setting t.depends_on = p would put t on a depends_on cycle, that is
\* when t = p or t is reached from p along depends_on; on an acyclic graph
\* the graph stays acyclic after a False answer and becomes cyclic after a
\* True one.
C18_Original ==
    Applied("would_create_cycle") =>
        LET t == args[2]
            p == args[3]
            after == WithDependsOn(tasks_list, t, p)
        IN /\ result = OnCycle(after, t)
           /\ result = ReachedFrom(tasks_list, t, p)
           /\ ~HasCycle(tasks_list) => (result = HasCycle(after))

\* What holds of would_create_cycle: the answer is as C18 states whenever
\* the proposed dependency is not the name "None".
C18_ExceptNoneOption ==
    (Applied("would_create_cycle") /\ args[3] /= NoneOption) =>
        LET t == args[2]
            p == args[3]
            after == WithDependsOn(tasks_list, t, p)
        IN /\ result = OnCycle(after, t)
           /\ result = ReachedFrom(tasks_list, t, p)
           /\ ~HasCycle(tasks_list) => (result = HasCycle(after))

\* A cycle exists already, not through t, and the answer for t comes.
C18_ReachedBesideCycle ==
    /\ Applied("would_create_cycle")
    /\ HasCycle(tasks_list)
    /\ ~OnCycle(tasks_list, args[2])
    /\ OnCycle(tasks_list, args[3])
    /\ result = FALSE

----------------------------------------------------------------------------
(* C19 *)

\* The chain of names from `current` on, nearest first, in which the first
\* name that is in `reached` already closes the chain, marked.
RECURSIVE ChainUntilRepeat(_, _, _)
ChainUntilRepeat(list, current, reached) ==
    LET dep == DependsOn(list, current) IN
    IF ~TruthyName(dep) THEN <<>>
    ELSE IF dep \in reached THEN <<CycleMarked(dep)>>
    ELSE <<dep>> \o ChainUntilRepeat(list, dep, reached \cup {dep})

IsMarked(entry) ==
    \E n \in Names(tasks_list) \cup {MissingName} : entry = CycleMarked(n)

\* C19 as stated: get_dependency_chain(tasks, name) returns the names that
\* name depends on, directly and transitively, nearest first; on a chain
\* without cycle no entry is marked; on a chain that runs into a cycle the
\* first task reached a second time, the queried task counting as reached,
\* is appended once with the marker as the last element, and no unmarked
\* entry repeats an earlier one or names the queried task.
C19_Original ==
    Applied("get_dependency_chain") =>
        LET name == args[2] IN
        /\ result = ChainUntilRepeat(tasks_list, name, {name})
        /\ \A k \in 1..Len(result) :
               /\ IsMarked(result[k]) => k = Len(result)
               /\ ~IsMarked(result[k]) =>
                      /\ result[k] /= name
                      /\ \A j \in 1..(k - 1) : result[j] /= result[k]

\* What holds of get_dependency_chain: the queried task does not count as
\* reached, so on a cycle through it the chain lists it unmarked and ends
\* with its own first entry, marked; every other chain is as C19 states.
C19_QueriedTaskNotReached ==
    Applied("get_dependency_chain") =>
        LET name == args[2] IN
        /\ result = ChainUntilRepeat(tasks_list, name, {})
        /\ ~OnCycle(tasks_list, name) =>
               result = ChainUntilRepeat(tasks_list, name, {name})
        /\ OnCycle(tasks_list, name) =>
               /\ \E k \in 1..(Len(result) - 1) : result[k] = name
               /\ result[Len(result)] = CycleMarked(result[1])

\* A chain through the queried task: A depends on B, B on A, and the chain
\* of A is B, A, "B (cycle!)".
C19_QueriedOnCycle ==
    /\ args = <<"get_dependency_chain", "A">>
    /\ result = <<"B", "A", "B (cycle!)">>

\* A chain that runs into a cycle beside the queried task.
C19_TailIntoCycle ==
    /\ Applied("get_dependency_chain")
    /\ ~OnCycle(tasks_list, args[2])
    /\ Len(result) = 3
    /\ IsMarked(result[3])

----------------------------------------------------------------------------
(* C20 *)

\* C20: the cycle _find_dependency_cycle returns is a cycle of the graph in
\* dependency order: its first and last names are the same, every listed
\* task depends on the one listed right after it, each task of the cycle
\* is listed once apart from the closing repetition, and no task that only
\* leads into the cycle is listed; and it returns None exactly when the
\* depends_on edges between the tasks of the list hold no cycle.
C20_CycleInDependencyOrder ==
    Applied("_find_dependency_cycle") =>
        /\ (result = <<>>) = ~HasCycle(tasks_list)
        /\ result /= <<>> =>
               /\ Len(result) >= 2
               /\ result[1] = result[Len(result)]
               /\ \A k \in 1..(Len(result) - 1) :
                      /\ OnCycle(tasks_list, result[k])
                      /\ DependsOn(tasks_list, result[k]) = result[k + 1]
                      /\ \A j \in 1..(k - 1) : result[j] /= result[k]

\* C20 witness: A depends on B, B on C and C on A; the search from A
\* returns A, B, C, A.
C20_Witness ==
    /\ Applied("_find_dependency_cycle")
    /\ Len(tasks_list) = 3
    /\ tasks_list[1].name = "A"
    /\ result = <<"A", "B", "C", "A">>
    /\ DependsOn(tasks_list, "A") = "B"
    /\ DependsOn(tasks_list, "B") = "C"
    /\ DependsOn(tasks_list, "C") = "A"

\* C20 witness for a tail: A leads into the cycle of B and C and is not
\* listed.
C20_WitnessTail ==
    /\ Applied("_find_dependency_cycle")
    /\ DependsOn(tasks_list, "A") = "B"
    /\ result = <<"B", "C", "B">>

----------------------------------------------------------------------------
(* C21 *)

\* Positions of the tasks the call has not resolved.
Unresolved == {i \in 1..Len(tasks_list) : ~IsCalculated(i)}

\* The call stopped at a pass without progress.
RaisedAtFixedPoint == pc = "raised" /\ error.kind /= "invalid_date"

\* C21: when the call stops at a fixed point with unresolved tasks, the
\* error is the missing-dependency error for the first unresolved task in
\* list order whose depends_on names no task of the list, whenever there
\* is such a task, cycle or not; otherwise it is the circular-dependency
\* error; it is never the generic message.
C21_DiagnosisOrder ==
    RaisedAtFixedPoint =>
        LET missing == {i \in Unresolved :
                            MissingReference(tasks_list[i], tasks_list)}
        IN /\ Unresolved /= {}
           /\ error.kind /= "generic"
           /\ IF missing /= {}
              THEN LET first == CHOOSE i \in missing : \A j \in missing : i <= j
                   IN error = MissingDependencyError(tasks_list[first].name,
                                  tasks_list[first].depends_on)
              ELSE error.kind = "cycle"

\* C21 witness: the first two tasks depend on each other and the third on
\* an absent task; the error is the missing-dependency error of the third.
C21_Witness ==
    /\ RaisedAtFixedPoint
    /\ Len(tasks_list) = 3
    /\ Unresolved = {1, 2, 3}
    /\ OnCycle(tasks_list, tasks_list[1].name)
    /\ tasks_list[1].depends_on = tasks_list[2].name
    /\ error = MissingDependencyError(tasks_list[3].name, MissingName)

\* C21 witness for the other branch: no unresolved task names an absent
\* task, a resolved one does, and the error is the circular-dependency
\* error.
C21_WitnessCycle ==
    /\ RaisedAtFixedPoint
    /\ HasMissingReference(tasks_list)
    /\ error.kind = "cycle"

----------------------------------------------------------------------------
(* C22 *)

\* Task i and each of its stages carry both start and end.
FullyDated(i) ==
    LET t == tasks_list[i] IN
    /\ t.start /= Absent /\ t.end /= Absent
    /\ \A k \in 1..Len(t.sub_tasks) :
           t.sub_tasks[k].start /= Absent /\ t.sub_tasks[k].end /= Absent

\* Task i and each of its stages carry neither start nor end.
Undated(i) ==
    LET t == tasks_list[i] IN
    /\ t.start = Absent /\ t.end = Absent
    /\ \A k \in 1..Len(t.sub_tasks) :
           t.sub_tasks[k].start = Absent /\ t.sub_tasks[k].end = Absent

PartiallyDated ==
    \A i \in 1..Len(tasks_list) :
        IF IsCalculated(i) THEN FullyDated(i) ELSE Undated(i)

\* C22: when the call raises, the list stays as the passes left it. Each
\* task resolved before the raise carries start and end on itself and on
\* each stage, each other task carries none (first conjunct); the raise
\* itself changes nothing on the list (second); and no step of a call
\* changes a name, a depends_on, an override, a stage name, duration or
\* status, or the order of tasks or stages (third).
C22_RaiseLeavesPartialDates ==
    /\ [](pc = "raised" => PartiallyDated)
    /\ [][(pc /= "raised" /\ pc' = "raised") => tasks_list' = tasks_list]_vars
    /\ [][WithoutDates(tasks_list') = WithoutDates(tasks_list)]_vars

\* C22 witness: a raise with one task dated, stage included, and another
\* without dates.
C22_Witness ==
    /\ pc = "raised"
    /\ \E i, j \in 1..Len(tasks_list) :
           /\ IsCalculated(i) /\ FullyDated(i)
           /\ tasks_list[i].sub_tasks /= <<>>
           /\ ~IsCalculated(j) /\ Undated(j)

----------------------------------------------------------------------------
(* C23 *)

\* C23 as stated: every task named in the cycle of a circular-dependency
\* error is one the call left unresolved.
C23_Original ==
    (pc = "raised" /\ error.kind = "cycle") =>
        \A n \in NameSet(error.names) : n \notin calculated_tasks

\* What holds of the reported cycle: it is the first cycle the search
\* from the head of the list meets, resolved or not, and some unresolved
\* task lies on or leads into a cycle of unresolved tasks.
C23_FirstCycleOfTheList ==
    (pc = "raised" /\ error.kind = "cycle") =>
        /\ error.names = FindDependencyCycle(tasks_list)
        /\ \E i \in Unresolved :
               /\ OnCycle(tasks_list, tasks_list[i].name)
               /\ CycleThrough(tasks_list, tasks_list[i].name)
                      \cap calculated_tasks = {}

\* A resolved task is blamed: the first task depends on itself and is
\* resolved (from its start override), another task is unresolved, and the
\* error names the first.
C23_ResolvedTaskBlamed ==
    /\ pc = "raised"
    /\ Len(tasks_list) = 3
    /\ IsCalculated(1)
    /\ tasks_list[1].depends_on = tasks_list[1].name
    /\ error = CircularDependencyError(<<tasks_list[1].name, tasks_list[1].name>>)

----------------------------------------------------------------------------
(* C24 *)

\* The task named n is an existing task that has a start override or no
\* dependency.
StartsOnItsOwn(list, n) ==
    /\ n \in Names(list)
    /\ \/ HasStartOverride(TaskByName(list, n))
       \/ ~TruthyName(DependsOn(list, n))

\* From the task named n, following depends_on through existing tasks
\* without start override, a task that starts on its own is reached.
ReachesAStart(list, n) ==
    \E k \in 0..(Len(list) - 1) :
        /\ StartsOnItsOwn(list, Follow(list, n, k))
        /\ \A j \in 0..(k - 1) :
               /\ Follow(list, n, j) \in Names(list)
               /\ ~HasStartOverride(TaskByName(list, Follow(list, n, j)))

\* C24: a call returns if and only if every non-empty start override
\* parses and every task reaches, through existing tasks without start
\* override, a task that has a start override or no dependency.
C24_ReturnsIffResolvable ==
    Finished =>
        ((pc = "returned")
            = (/\ ~HasInvalidStartOverride(tasks_list)
               /\ \A n \in Names(tasks_list) : ReachesAStart(tasks_list, n)))

\* C24 witness: a call returned on a list with a cycle through two tasks,
\* one of them with a start override, and a third task that names an
\* absent task and has a start override too.
C24_Witness ==
    /\ pc = "returned"
    /\ Len(tasks_list) = 3
    /\ tasks_list[1].depends_on = tasks_list[2].name
    /\ tasks_list[2].depends_on = tasks_list[1].name
    /\ ~HasStartOverride(tasks_list[1])
    /\ HasStartOverride(tasks_list[2])
    /\ tasks_list[3].depends_on = MissingName
    /\ HasStartOverride(tasks_list[3])

----------------------------------------------------------------------------
(* The task editor of main.py: add_task, remove_task, the inline rename and
   the edit dialog, each followed by calculate_and_draw *)

\* f"{n}"
DigitChars == <<"0", "1", "2", "3", "4", "5", "6", "7", "8", "9">>

RECURSIVE Str(_)
Str(n) ==
    IF n < 10 THEN DigitChars[n + 1]
    ELSE Str(n \div 10) \o DigitChars[(n % 10) + 1]

\* f"New Task {len(self.tasks_data) + 1}"
NewTaskName(list) == "New Task " \o Str(Len(list) + 1)

\* Lines 895-906: the new task, its three stages of one day each (the
\* palette holds the three stage names).
NewTask(list) ==
    Task(NewTaskName(list),
         <<None, NoneStr, NoneStr,
           [i \in 1..Len(StageNames) |-> Stage(i, 1 * DurDen)]>>)

\* for task in self.tasks_data: if task['name'] == n: ... break
FirstIndex(list, n) ==
    CHOOSE i \in 1..Len(list) :
        list[i].name = n /\ \A j \in 1..(i - 1) : list[j].name /= n

\* for t in self.tasks_data: if t.get('depends_on') == old: t['depends_on'] = new
RewriteDependsOn(list, old, new) ==
    [i \in 1..Len(list) |->
        IF list[i].depends_on = old
        THEN [list[i] EXCEPT !.depends_on = new] ELSE list[i]]

\* Lines 761-768: the first task of the name is renamed, then every
\* depends_on that names it is rewritten.
Renamed(list, original_name, new_name) ==
    RewriteDependsOn(
        [list EXCEPT ![FirstIndex(list, original_name)].name = new_name],
        original_name, new_name)

\* Lines 931-936: depends_on is cleared on every dependent, then the first
\* task of the name leaves the list.
Removed(list, task_name_to_remove) ==
    LET cleared == RewriteDependsOn(list, task_name_to_remove, None)
        i == FirstIndex(list, task_name_to_remove)
    IN SubSeq(cleared, 1, i - 1) \o SubSeq(cleared, i + 1, Len(cleared))

\* dialogs.py line 32: what the "Depends On" box shows when the dialog opens.
DependencyVar(task) ==
    IF TruthyName(task.depends_on) THEN task.depends_on ELSE NoneOption

\* dialogs.py line 31: the options the "Depends On" box offers.
DependencyOptions(list, task_name_to_edit) ==
    {NoneOption} \cup (Names(list) \ {task_name_to_edit})

\* dialogs.py lines 37, 42: what a date box shows when the dialog opens.
DateVar(s) == IF TruthyStr(s) THEN s ELSE <<>>

\* dialogs.py lines 259-283: the task as the dialog leaves it. The stages
\* keep name, duration and status and lose their dates.
DialogApply(task, name, dep, override, end_override) ==
    [task EXCEPT
        !.name = name,
        !.depends_on = IF dep /= NoneOption THEN dep ELSE None,
        !.start_date_override = IF override /= <<>> THEN override ELSE NoneStr,
        !.end_date_override =
            IF end_override /= <<>> THEN end_override ELSE NoneStr,
        !.sub_tasks = [k \in 1..Len(task.sub_tasks) |->
            [task.sub_tasks[k] EXCEPT !.start = Absent, !.end = Absent]]]

\* dialogs.py 280-281 and main.py 884-889: the edited task takes the place
\* of the first task of the name; if its name changed, every depends_on
\* that names the old one is rewritten.
Edited(list, task_name_to_edit, name, dep, override) ==
    LET i == FirstIndex(list, task_name_to_edit)
        applied == [list EXCEPT ![i] =
                       DialogApply(@, name, dep, override,
                                   DateVar(@.end_date_override))]
    IN IF task_name_to_edit /= name
       THEN RewriteDependsOn(applied, task_name_to_edit, name)
       ELSE applied

\* Lines 940-955: calculate_task_dates on a list that is not empty; an
\* exception ends in a message box.
CalculateAndDraw(list, ps) ==
    IF list /= <<>> THEN CalculateTaskDates(list, ps)
    ELSE Outcome("returned", list, {}, 0, NoError)

\* Most tasks of a list and of a list a project is opened with, and what
\* is typed as a task name: nothing, and the names of tasks there may be.
MaxTasks == 3
MaxOpenedTasks == 2
TypedNames == {"", "A", "B"}

\* The lists a project is opened with: tasks A, B, ..., each depending on
\* nothing or on another task of the list, without cycle.
EditorLists ==
    {l \in UNION {{[i \in 1..n |->
                       [NewTask(<<>>) EXCEPT !.name = TaskNames[i],
                                             !.depends_on = dep[i]]] :
                      dep \in [1..n -> {None} \cup
                                         {TaskNames[i] : i \in 1..n}]}
                  : n \in 0..MaxOpenedTasks} :
        FindDependencyCycle(l) = <<>>}

InitEditor ==
    /\ project_start_date = Monday20Jan2025
    /\ \E l \in EditorLists :
           LET o == CalculateAndDraw(l, Monday20Jan2025) IN
           /\ tasks_list = o.tasks_list
           /\ error = o.error
    /\ calculated_tasks = {}
    /\ iteration = 0
    /\ idx = 1
    /\ made_progress = FALSE
    /\ pc = "idle"
    /\ had_dates = FALSE
    /\ args = <<>>
    /\ result = None

\* self.populate_treeview(); self.calculate_and_draw()
Redrawn(list) ==
    LET o == CalculateAndDraw(list, project_start_date) IN
    /\ tasks_list' = o.tasks_list
    /\ error' = o.error
    /\ UNCHANGED <<project_start_date, calculated_tasks, iteration, idx,
                   made_progress, pc, had_dates, result>>

\* add_task
AddTask ==
    /\ Len(tasks_list) < MaxTasks
    /\ args' = <<"add_task">>
    /\ Redrawn(Append(tasks_list, NewTask(tasks_list)))

\* remove_task, on the task selected in the tree
RemoveTask ==
    \E task_name_to_remove \in Names(tasks_list) :
        /\ args' = <<"remove_task", task_name_to_remove>>
        /\ Redrawn(Removed(tasks_list, task_name_to_remove))

\* _edit_task_name_inline.on_commit, on the row that was double-clicked
RenameTask ==
    \E original_name \in Names(tasks_list), new_name \in TypedNames :
        /\ new_name /= "" /\ new_name /= original_name
        /\ args' = <<"rename", original_name, new_name>>
        /\ Redrawn(Renamed(tasks_list, original_name, new_name))

\* edit_task with a dialog in which the name alone is typed over
EditTaskName ==
    \E task_name_to_edit \in Names(tasks_list), name \in TypedNames :
        LET task == tasks_list[FirstIndex(tasks_list, task_name_to_edit)] IN
        /\ name /= task_name_to_edit
        /\ args' = <<"edit_task", task_name_to_edit, name>>
        /\ Redrawn(Edited(tasks_list, task_name_to_edit, name,
                          DependencyVar(task),
                          DateVar(task.start_date_override)))

NextEditor ==
    \/ AddTask
    \/ RemoveTask
    \/ RenameTask
    \/ EditTaskName

SpecEditor == InitEditor /\ [][NextEditor]_vars

\* edit_task with a dialog closed by OK: a name typed or left, a
\* dependency picked from the options or left, a start date typed or left
EditTask ==
    \E task_name_to_edit \in Names(tasks_list) :
        LET task == tasks_list[FirstIndex(tasks_list, task_name_to_edit)] IN
        \E name \in TypedNames \cup {task_name_to_edit},
           dep \in DependencyOptions(tasks_list, task_name_to_edit)
                       \cup {DependencyVar(task)},
           override \in {DateVar(task.start_date_override), <<>>, Wed22Jan} :
            /\ args' = <<"edit_task", task_name_to_edit, name, dep, override>>
            /\ Redrawn(Edited(tasks_list, task_name_to_edit, name, dep,
                              override))

NextDialog == EditTask

SpecDialog == InitEditor /\ [][NextDialog]_vars

----------------------------------------------------------------------------
(* C25 *)

\* No two tasks of the list have the same name.
NamesDistinct(list) ==
    \A i, j \in 1..Len(list) : list[i].name = list[j].name => i = j

\* C25: after any sequence of add_task, remove_task and rename operations
\* on a list of uniquely named tasks, no two tasks have the same name.
C25_Original == NamesDistinct(tasks_list)

\* add_task has given the new task the name of a task that is there.
C25_DuplicateByAddTask ==
    /\ args = <<"add_task">>
    /\ \E i \in 1..(Len(tasks_list) - 1) :
           tasks_list[i].name = tasks_list[Len(tasks_list)].name

\* A rename gives a task the name of another one.
C25_DuplicateByRename ==
    /\ Len(args) = 3 /\ args[1] = "rename"
    /\ ~NamesDistinct(tasks_list)

----------------------------------------------------------------------------
(* C26 *)

\* C26: no sequence of edit-dialog applies on an acyclic list leaves a
\* cycle among the depends_on edges.
C26_Original == ~HasCycle(tasks_list)

\* C26, the acceptance: a dependency the dialog has set on a task is one
\* for which would_create_cycle returned False on the list as it was.
C26_OriginalAcceptance ==
    [][\A task_name_to_edit \in Names(tasks_list) :
          \A dep \in DependencyOptions(tasks_list, task_name_to_edit) :
              (/\ Len(args') = 5
               /\ args'[2] = task_name_to_edit
               /\ args'[4] = dep)
              => ~WouldCreateCycle(tasks_list, task_name_to_edit, dep)]_vars

\* The dialog has set the dependency that closes a cycle of two uniquely
\* named tasks, and the calculation that follows reports the cycle.
C26_CycleThroughDialog ==
    /\ Len(args) = 5
    /\ NamesDistinct(tasks_list)
    /\ Len(tasks_list) = 2
    /\ tasks_list[1].depends_on = tasks_list[2].name
    /\ tasks_list[2].depends_on = tasks_list[1].name
    /\ args[4] = tasks_list[2].name
    /\ error.kind = "cycle"

----------------------------------------------------------------------------
(* C27 *)

\* Every non-empty depends_on names a task of the list and not the name of
\* its own task.
ReferencesValid(list) ==
    \A i \in 1..Len(list) :
        TruthyName(list[i].depends_on) =>
            /\ list[i].depends_on \in Names(list)
            /\ list[i].depends_on /= list[i].name

\* C27: after any sequence of add_task, remove_task and rename operations
\* on a list with valid references, every non-empty depends_on names an
\* existing task other than the task itself.
C27_Original == ReferencesValid(tasks_list)

\* A rename has left a task that depends on its own name.
C27_SelfReferenceByRename ==
    /\ Len(args) = 3 /\ args[1] = "rename"
    /\ \E i \in 1..Len(tasks_list) :
           tasks_list[i].depends_on = tasks_list[i].name

----------------------------------------------------------------------------
(* C28 *)

\* No stage of the task has a negative duration.
DurationsNonNegative(t) ==
    \A k \in 1..Len(t.sub_tasks) : t.sub_tasks[k].duration >= 0

\* The dates of the task are in order.
DatesOrdered(t) ==
    /\ t.start <= t.end
    /\ t.sub_tasks /= <<>> => t.start = t.sub_tasks[1].start
    /\ \A k \in 1..Len(t.sub_tasks) :
           t.sub_tasks[k].start <= t.sub_tasks[k].end
    /\ \A k \in 1..(Len(t.sub_tasks) - 1) :
           t.sub_tasks[k + 1].start >= t.sub_tasks[k].end

\* C28: after a call that returned, every task whose stage durations are
\* not negative has start <= end, starts with its first stage, and has
\* each stage start <= its end and on or after the end of the stage before.
C28_DatesOrdered ==
    pc = "returned" =>
        \A i \in 1..Len(tasks_list) :
            DurationsNonNegative(tasks_list[i]) =>
                /\ FullyDated(i)
                /\ DatesOrdered(tasks_list[i])

\* C28 witness: a call returned with a task of three stages in which a
\* stage starts on the day the one before ends and another on a later day.
C28_Witness ==
    /\ pc = "returned"
    /\ \E i \in 1..Len(tasks_list) :
           LET s == tasks_list[i].sub_tasks IN
           /\ Len(s) = 3
           /\ s[1].start < s[1].end
           /\ s[2].start = s[1].end
           /\ s[3].start > s[2].end

\* C28 witness: a call returned with a task that starts on a Saturday and
\* has a stage of no duration before a stage of two days, and an end
\* override that ends the task before its last stage ends.
C28_WitnessWeekend ==
    /\ pc = "returned"
    /\ \E i \in 1..Len(tasks_list) :
           LET t == tasks_list[i] IN
           /\ Weekday(t.start) = Saturday
           /\ Len(t.sub_tasks) = 2
           /\ t.sub_tasks[1].duration = 0
           /\ t.sub_tasks[2].duration = 2 * DurDen
           /\ t.end < t.sub_tasks[2].end

----------------------------------------------------------------------------
(* C29 *)

\* Task i is resolved, has at least one stage and no valid end override.
EndsByItsStages(i) ==
    /\ IsCalculated(i)
    /\ tasks_list[i].sub_tasks /= <<>>
    /\ ~ValidEndOverride(tasks_list[i])

LastStage(t) == t.sub_tasks[Len(t.sub_tasks)]

\* Task j is resolved, has no start override and depends on task i.
DependentOf(j, i) ==
    /\ IsCalculated(j)
    /\ ~HasStartOverride(tasks_list[j])
    /\ tasks_list[j].depends_on = tasks_list[i].name

\* C29 as stated: a resolved task with stages and no valid end override
\* ends when its last stage ends, and a dependent starts on the first
\* weekday after that.
C29_Original ==
    \A i \in 1..Len(tasks_list) :
        EndsByItsStages(i) =>
            /\ tasks_list[i].end = LastStage(tasks_list[i]).end
            /\ \A j \in 1..Len(tasks_list) :
                   DependentOf(j, i) =>
                       tasks_list[j].start
                           = FirstWorkDayAfter(LastStage(tasks_list[i]).end)

\* C29: a resolved task with stages and no valid end override ends at
\* add_work_days(task start, sum of the stage durations), which is the end
\* of its last stage if it has one stage and never before the end of its
\* last stage; a dependent starts on the first weekday after the task's
\* end.
C29_TaskEndBySumOfDurations ==
    \A i \in 1..Len(tasks_list) :
        EndsByItsStages(i) =>
            LET t == tasks_list[i] IN
            /\ t.end = AddWorkDays(t.start, TotalDuration(t.sub_tasks))
            /\ t.end >= LastStage(t).end
            /\ Len(t.sub_tasks) = 1 => t.end = LastStage(t).end
            /\ \A j \in 1..Len(tasks_list) :
                   DependentOf(j, i) =>
                       tasks_list[j].start = FirstWorkDayAfter(t.end)

\* C29 witness: a task of two stages ends after its last stage, and its
\* dependent starts later than the first weekday after that stage.
C29_Witness ==
    \E i, j \in 1..Len(tasks_list) :
        /\ EndsByItsStages(i)
        /\ Len(tasks_list[i].sub_tasks) = 2
        /\ tasks_list[i].end > LastStage(tasks_list[i]).end
        /\ DependentOf(j, i)
        /\ tasks_list[j].start
               > FirstWorkDayAfter(LastStage(tasks_list[i]).end)

\* C29 witness: the task of the stages 2, 3 and 1 days that starts on
\* Monday 2025-01-20 ends on Monday the 27th, its last stage on Friday the
\* 24th.
C29_WitnessThreeStages ==
    /\ Len(tasks_list) = 1
    /\ EndsByItsStages(1)
    /\ Len(tasks_list[1].sub_tasks) = 3
    /\ tasks_list[1].start = Monday20Jan2025
    /\ LastStage(tasks_list[1]).end = DateOrd(2025, 1, 24)
    /\ tasks_list[1].end = DateOrd(2025, 1, 27)

----------------------------------------------------------------------------
(* C30 *)

\* The end of the task is the date of its end override.
EndTakenFromOverride(t) ==
    /\ t.sub_tasks /= <<>>
    /\ ValidEndOverride(t)
    /\ t.end = ParseDate(t.end_date_override)

\* C30: after a call that returned for a Monday-Friday project start,
\* every task start, stage start and stage end is a Monday-Friday day, and
\* a task end is a Saturday or Sunday only if it was taken from the end
\* override.
C30_WeekdaysFromWeekdayStart ==
    (pc = "returned" /\ IsWorkDay(project_start_date)) =>
        \A i \in 1..Len(tasks_list) :
            LET t == tasks_list[i] IN
            /\ FullyDated(i)
            /\ IsWorkDay(t.start)
            /\ \A k \in 1..Len(t.sub_tasks) :
                   /\ IsWorkDay(t.sub_tasks[k].start)
                   /\ IsWorkDay(t.sub_tasks[k].end)
            /\ ~IsWorkDay(t.end) => EndTakenFromOverride(t)

\* C30 witness: a call returned for a Monday-Friday project start with a
\* task with stages that ends on the Saturday of its end override, and a
\* dependent of it.
C30_Witness ==
    /\ pc = "returned"
    /\ IsWorkDay(project_start_date)
    /\ \E i, j \in 1..Len(tasks_list) :
           /\ Weekday(tasks_list[i].end) = Saturday
           /\ EndTakenFromOverride(tasks_list[i])
           /\ DependentOf(j, i)

\* C30 witness: a call returned for a Monday-Friday project start with a
\* task with stages whose start override is a Sunday, and a dependent of
\* it.
C30_WitnessStartOverride ==
    /\ pc = "returned"
    /\ IsWorkDay(project_start_date)
    /\ \E i, j \in 1..Len(tasks_list) :
           /\ tasks_list[i].start_date_override = Sun26Jan
           /\ tasks_list[i].start = DateOrd(2025, 1, 27)
           /\ tasks_list[i].sub_tasks /= <<>>
           /\ DependentOf(j, i)

====
